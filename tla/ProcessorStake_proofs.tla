------------------------ MODULE ProcessorStake_proofs ------------------------
(* The books of the processor stakes, for any accounts, amounts and        *)
(* sequences of calls.                                                     *)
EXTENDS ProcessorStake, FoldTheorems

StakeInv == StakeTypeOK /\ DepositsAreReserved

LEMMA StakeInitInv == StakeInit => StakeInv
  BY ProcessorStakeAssumption
  DEF StakeInit, StakeInv, StakeTypeOK, DepositsAreReserved, StakeOf, Holders

\* What an account can give up is at most what it has reserved.
LEMMA AtMostTypes ==
    ASSUME StakeTypeOK, NEW who \in Holders, NEW amount \in Nat
    PROVE  /\ AtMost(who, amount) \in Nat
           /\ AtMost(who, amount) <= amount
           /\ AtMost(who, amount) <= reserved[who]
           /\ amount <= reserved[who] => AtMost(who, amount) = amount
  BY DEF StakeTypeOK, AtMost

LEMMA ReserveStep ==
    ASSUME StakeTypeOK, NEW who \in Accounts, NEW amount \in Nat,
           CanReserve(who, amount), reserve(who, amount)
    PROVE  /\ free' \in [Holders -> Nat] /\ reserved' \in [Holders -> Nat]
           /\ \A a \in Accounts : reserved'[a] = IF a = who THEN reserved[a] + amount ELSE reserved[a]
<1>1. who \in Holders /\ free \in [Holders -> Nat] /\ reserved \in [Holders -> Nat]
  BY DEF StakeTypeOK, Holders
<1>2. amount <= free[who]
  BY <1>1, ProcessorStakeAssumption DEF CanReserve
<1>3. free[who] - amount \in Nat /\ reserved[who] + amount \in Nat
  BY <1>1, <1>2
<1> QED BY <1>1, <1>3 DEF reserve, Holders

LEMMA UnreserveStep ==
    ASSUME StakeTypeOK, NEW who \in Accounts, NEW amount \in Nat, unreserve(who, amount)
    PROVE  /\ free' \in [Holders -> Nat] /\ reserved' \in [Holders -> Nat]
           /\ \A a \in Accounts : a # who => reserved'[a] = reserved[a]
           /\ amount <= reserved[who] => reserved'[who] = reserved[who] - amount
<1> DEFINE taken == AtMost(who, amount)
<1>1. who \in Holders /\ free \in [Holders -> Nat] /\ reserved \in [Holders -> Nat]
  BY DEF StakeTypeOK, Holders
<1>2. /\ taken \in Nat /\ taken <= reserved[who]
      /\ amount <= reserved[who] => taken = amount
  BY <1>1, AtMostTypes
<1>3. /\ free' = [free EXCEPT ![who] = @ + taken]
      /\ reserved' = [reserved EXCEPT ![who] = @ - taken]
  BY DEF unreserve
<1> HIDE DEF taken
<1>4. free[who] + taken \in Nat /\ reserved[who] - taken \in Nat
  BY <1>1, <1>2
<1> QED BY <1>1, <1>2, <1>3, <1>4 DEF Holders

LEMMA StakeCall ==
    ASSUME StakeInv, NEW who \in Accounts, NEW amount \in Amounts, stake(who, amount)
    PROVE  StakeInv'
<1>1. StakeTypeOK /\ amount \in Nat
  BY ProcessorStakeAssumption DEF StakeInv
<1>2. /\ staked[who] = None /\ staked' = [staked EXCEPT ![who] = amount]
      /\ UNCHANGED <<bonds, disturbed>>
  BY DEF stake
<1>3. /\ free' \in [Holders -> Nat] /\ reserved' \in [Holders -> Nat]
      /\ \A a \in Accounts : reserved'[a] = IF a = who THEN reserved[a] + amount ELSE reserved[a]
  BY <1>1, ReserveStep DEF stake
<1>4. StakeTypeOK'
  BY <1>1, <1>2, <1>3 DEF StakeTypeOK
<1>5. ASSUME NEW a \in Accounts \ disturbed PROVE reserved'[a] = StakeOf(a)' + bonds'[a]
  <2>1. reserved[a] = StakeOf(a) + bonds[a]
    BY DEF StakeInv, DepositsAreReserved
  <2>2. CASE a = who
    <3>1. StakeOf(a) = 0 /\ StakeOf(a)' = amount
      BY <1>1, <1>2, <2>2, ProcessorStakeAssumption DEF StakeOf, StakeTypeOK
    <3> QED BY <1>1, <1>2, <1>3, <2>1, <2>2, <3>1 DEF StakeTypeOK
  <2>3. CASE a # who
    BY <1>1, <1>2, <1>3, <2>1, <2>3 DEF StakeOf, StakeTypeOK
  <2> QED BY <2>2, <2>3
<1> QED BY <1>2, <1>4, <1>5 DEF StakeInv, DepositsAreReserved

LEMMA UnStakeCall ==
    ASSUME StakeInv, NEW who \in Accounts, un_stake(who)
    PROVE  StakeInv'
<1>1. StakeTypeOK /\ reserved[who] \in Nat
  BY DEF StakeInv, StakeTypeOK, Holders
<1>2. /\ staked' = [staked EXCEPT ![who] = None]
      /\ disturbed' = IF bonds[who] = 0 THEN disturbed ELSE disturbed \cup {who}
      /\ UNCHANGED bonds
  BY DEF un_stake
<1>3. /\ free' \in [Holders -> Nat] /\ reserved' \in [Holders -> Nat]
      /\ \A a \in Accounts : a # who => reserved'[a] = reserved[a]
      /\ reserved'[who] = 0
  BY <1>1, UnreserveStep DEF un_stake
<1>4. StakeTypeOK'
  BY <1>1, <1>2, <1>3 DEF StakeTypeOK
<1>5. ASSUME NEW a \in Accounts \ disturbed' PROVE reserved'[a] = StakeOf(a)' + bonds'[a]
  <2>1. CASE a = who
    BY <1>1, <1>2, <1>3, <2>1 DEF StakeOf, StakeTypeOK
  <2>2. CASE a # who
    BY <1>1, <1>2, <1>3, <2>2 DEF StakeInv, DepositsAreReserved, StakeOf, StakeTypeOK
  <2> QED BY <2>1, <2>2
<1> QED BY <1>4, <1>5 DEF StakeInv, DepositsAreReserved

LEMMA SlashCall ==
    ASSUME StakeInv, NEW who \in Accounts, NEW target \in Holders, NEW amount \in Amounts,
           slash(who, target, amount)
    PROVE  StakeInv'
<1> DEFINE taken == AtMost(target, amount)
<1>1. StakeTypeOK /\ amount \in Nat /\ treasury \in Holders
  BY ProcessorStakeAssumption DEF StakeInv, Holders
<1>2. taken \in Nat /\ taken <= amount /\ taken <= reserved[target]
  BY <1>1, AtMostTypes
<1>3. /\ reserved' = [reserved EXCEPT ![target] = @ - taken]
      /\ free' = [free EXCEPT ![treasury] = @ + taken]
      /\ disturbed' = (disturbed \cup {target}) \cap Accounts
      /\ UNCHANGED <<staked, bonds>>
  BY DEF slash
<1> HIDE DEF taken
<1>4. reserved[target] - taken \in Nat /\ free[treasury] + taken \in Nat
  BY <1>1, <1>2 DEF StakeTypeOK
<1>5. StakeTypeOK'
  BY <1>1, <1>3, <1>4 DEF StakeTypeOK
<1>6. ASSUME NEW a \in Accounts \ disturbed' PROVE reserved'[a] = StakeOf(a)' + bonds'[a]
  <2>1. a # target /\ a \notin disturbed
    BY <1>3, <1>6
  <2> QED BY <1>1, <1>3, <2>1 DEF StakeInv, DepositsAreReserved, StakeOf, StakeTypeOK, Holders
<1> QED BY <1>5, <1>6 DEF StakeInv, DepositsAreReserved

LEMMA BondCall ==
    ASSUME StakeInv, NEW who \in Accounts, submit_candidacy(who)
    PROVE  StakeInv'
<1>1. StakeTypeOK /\ CandidacyBond \in Nat
  BY ProcessorStakeAssumption DEF StakeInv
<1>2. /\ bonds[who] = 0 /\ bonds' = [bonds EXCEPT ![who] = CandidacyBond]
      /\ UNCHANGED <<staked, disturbed>>
  BY DEF submit_candidacy
<1>3. /\ free' \in [Holders -> Nat] /\ reserved' \in [Holders -> Nat]
      /\ \A a \in Accounts :
            reserved'[a] = IF a = who THEN reserved[a] + CandidacyBond ELSE reserved[a]
  BY <1>1, ReserveStep DEF submit_candidacy
<1>4. StakeTypeOK'
  BY <1>1, <1>2, <1>3 DEF StakeTypeOK
<1>5. \A a \in Accounts : StakeOf(a)' = StakeOf(a) /\ StakeOf(a) \in Nat
  BY <1>1, <1>2 DEF StakeOf, StakeTypeOK
<1>6. ASSUME NEW a \in Accounts \ disturbed PROVE reserved'[a] = StakeOf(a)' + bonds'[a]
  BY <1>1, <1>2, <1>3, <1>5 DEF StakeInv, DepositsAreReserved, StakeTypeOK
<1> QED BY <1>2, <1>4, <1>6 DEF StakeInv, DepositsAreReserved

LEMMA UnbondCall ==
    ASSUME StakeInv, NEW who \in Accounts, renounce_candidacy(who)
    PROVE  StakeInv'
<1>1. StakeTypeOK /\ bonds[who] \in Nat
  BY DEF StakeInv, StakeTypeOK
<1>2. /\ bonds' = [bonds EXCEPT ![who] = 0]
      /\ UNCHANGED <<staked, disturbed>>
  BY DEF renounce_candidacy
<1>3. /\ free' \in [Holders -> Nat] /\ reserved' \in [Holders -> Nat]
      /\ \A a \in Accounts : a # who => reserved'[a] = reserved[a]
      /\ bonds[who] <= reserved[who] => reserved'[who] = reserved[who] - bonds[who]
  BY <1>1, UnreserveStep DEF renounce_candidacy
<1>4. StakeTypeOK'
  BY <1>1, <1>2, <1>3 DEF StakeTypeOK
<1>5. \A a \in Accounts : StakeOf(a)' = StakeOf(a) /\ StakeOf(a) \in Nat
  BY <1>1, <1>2 DEF StakeOf, StakeTypeOK
<1>6. ASSUME NEW a \in Accounts \ disturbed PROVE reserved'[a] = StakeOf(a)' + bonds'[a]
  <2>1. reserved[a] = StakeOf(a) + bonds[a]
    BY DEF StakeInv, DepositsAreReserved
  <2>2. CASE a = who
    BY <1>1, <1>2, <1>3, <1>5, <2>1, <2>2 DEF StakeTypeOK
  <2>3. CASE a # who
    BY <1>1, <1>2, <1>3, <1>5, <2>1, <2>3 DEF StakeTypeOK
  <2> QED BY <2>2, <2>3
<1> QED BY <1>2, <1>4, <1>6 DEF StakeInv, DepositsAreReserved

LEMMA StakeInvariant == StakeSpec => []StakeInv
<1>1. StakeInv /\ [Next]_stakeVars => StakeInv'
  <2>1. ASSUME StakeInv, UNCHANGED stakeVars PROVE StakeInv'
    BY <2>1 DEF stakeVars, StakeInv, StakeTypeOK, DepositsAreReserved, StakeOf
  <2> QED
    BY <2>1, StakeCall, UnStakeCall, SlashCall, BondCall, UnbondCall DEF Next
<1> QED BY <1>1, StakeInitInv, PTL DEF StakeSpec

(* Balances never become negative, whatever is slashed or given back.      *)
THEOREM StakeTypeCorrect == StakeSpec => []StakeTypeOK
<1>1. StakeInv => StakeTypeOK
  BY DEF StakeInv
<1> QED BY <1>1, StakeInvariant, PTL

(* Until an account is slashed, or un-staked with other deposits, exactly  *)
(* its stake and those deposits are reserved (lines 254-329).              *)
THEOREM DepositsStayReserved == StakeSpec => []DepositsAreReserved
<1>1. StakeInv => DepositsAreReserved
  BY DEF StakeInv
<1> QED BY <1>1, StakeInvariant, PTL

-----------------------------------------------------------------------------
(* The funds                                                               *)

Funds == Total(free) + Total(reserved)

LEMMA HoldersAreFinite == IsFiniteSet(Holders)
  BY ProcessorStakeAssumption, FS_AddElement DEF Holders

LEMMA SumIsTotal == ASSUME NEW f PROVE SumOf(f) = Total(f)
  BY DEF SumOf, Total, FoldFunction, FoldFunctionOnSet, MapThenFoldSet

(* What one balance loses another one gains.                               *)
LEMMA FundsMove ==
    ASSUME StakeTypeOK, StakeTypeOK', NEW h \in Holders, NEW k \in Holders,
           \A y \in Holders \ {h} : free'[y] = free[y],
           \A y \in Holders \ {k} : reserved'[y] = reserved[y],
           free'[h] + reserved'[k] = free[h] + reserved[k]
    PROVE  Funds' = Funds
<1>1. /\ free \in [Holders -> Nat] /\ free' \in [Holders -> Nat]
      /\ reserved \in [Holders -> Nat] /\ reserved' \in [Holders -> Nat]
  BY DEF StakeTypeOK
<1>2. Total(free') + free[h] = Total(free) + free'[h]
  BY <1>1, HoldersAreFinite, TotalAfterChange
<1>3. Total(reserved') + reserved[k] = Total(reserved) + reserved'[k]
  BY <1>1, HoldersAreFinite, TotalAfterChange
<1>4. /\ Total(free) \in Nat /\ Total(free') \in Nat
      /\ Total(reserved) \in Nat /\ Total(reserved') \in Nat
  BY <1>1, HoldersAreFinite, TotalIsNat
<1>5. free[h] \in Nat /\ free'[h] \in Nat /\ reserved[k] \in Nat /\ reserved'[k] \in Nat
  BY <1>1
<1> QED BY <1>2, <1>3, <1>4, <1>5 DEF Funds

LEMMA ReserveKeepsFunds ==
    ASSUME StakeTypeOK, StakeTypeOK', NEW who \in Accounts, NEW amount \in Nat, reserve(who, amount)
    PROVE  Funds' = Funds
<1>1. who \in Holders /\ free \in [Holders -> Nat] /\ reserved \in [Holders -> Nat]
  BY DEF StakeTypeOK, Holders
<1>2. free'[who] = free[who] - amount /\ reserved'[who] = reserved[who] + amount
  BY <1>1 DEF reserve
<1>3. \A y \in Holders \ {who} : free'[y] = free[y] /\ reserved'[y] = reserved[y]
  BY <1>1 DEF reserve
<1>4. free'[who] + reserved'[who] = free[who] + reserved[who]
  BY <1>1, <1>2
<1> QED BY <1>1, <1>3, <1>4, FundsMove

LEMMA UnreserveKeepsFunds ==
    ASSUME StakeTypeOK, StakeTypeOK', NEW who \in Accounts, NEW amount \in Nat, unreserve(who, amount)
    PROVE  Funds' = Funds
<1> DEFINE taken == AtMost(who, amount)
<1>1. who \in Holders /\ free \in [Holders -> Nat] /\ reserved \in [Holders -> Nat]
  BY DEF StakeTypeOK, Holders
<1>2. taken \in Nat
  BY <1>1, AtMostTypes
<1>3. /\ free' = [free EXCEPT ![who] = @ + taken]
      /\ reserved' = [reserved EXCEPT ![who] = @ - taken]
  BY DEF unreserve
<1> HIDE DEF taken
<1>4. \A y \in Holders \ {who} : free'[y] = free[y] /\ reserved'[y] = reserved[y]
  BY <1>1, <1>3
<1>5. free'[who] + reserved'[who] = free[who] + reserved[who]
  BY <1>1, <1>2, <1>3
<1> QED BY <1>1, <1>4, <1>5, FundsMove

LEMMA SlashKeepsFunds ==
    ASSUME StakeTypeOK, StakeTypeOK', NEW who \in Accounts, NEW target \in Holders,
           NEW amount \in Nat, slash(who, target, amount)
    PROVE  Funds' = Funds
<1> DEFINE taken == AtMost(target, amount)
<1>1. treasury \in Holders /\ free \in [Holders -> Nat] /\ reserved \in [Holders -> Nat]
  BY DEF StakeTypeOK, Holders
<1>2. taken \in Nat
  BY AtMostTypes
<1>3. /\ reserved' = [reserved EXCEPT ![target] = @ - taken]
      /\ free' = [free EXCEPT ![treasury] = @ + taken]
  BY DEF slash
<1> HIDE DEF taken
<1>4. /\ \A y \in Holders \ {treasury} : free'[y] = free[y]
      /\ \A y \in Holders \ {target} : reserved'[y] = reserved[y]
  BY <1>1, <1>3
<1>5. free'[treasury] + reserved'[target] = free[treasury] + reserved[target]
  BY <1>1, <1>2, <1>3
<1> QED BY <1>1, <1>4, <1>5, FundsMove

LEMMA FundsKept == StakeInv /\ StakeInv' /\ [Next]_stakeVars => Funds' = Funds
<1> SUFFICES ASSUME StakeInv, StakeInv', [Next]_stakeVars PROVE Funds' = Funds
  OBVIOUS
<1>1. StakeTypeOK /\ StakeTypeOK' /\ CandidacyBond \in Nat /\ \A amount \in Amounts : amount \in Nat
  BY ProcessorStakeAssumption DEF StakeInv
<1>2. ASSUME NEW who \in Accounts, un_stake(who) \/ renounce_candidacy(who) PROVE Funds' = Funds
  <2>1. reserved[who] \in Nat /\ bonds[who] \in Nat
    BY <1>1 DEF StakeTypeOK, Holders
  <2> QED BY <1>1, <1>2, <2>1, UnreserveKeepsFunds DEF un_stake, renounce_candidacy
<1>3. ASSUME NEW who \in Accounts, submit_candidacy(who) PROVE Funds' = Funds
  BY <1>1, <1>3, ReserveKeepsFunds DEF submit_candidacy
<1>4. ASSUME NEW who \in Accounts, NEW amount \in Amounts, stake(who, amount) PROVE Funds' = Funds
  BY <1>1, <1>4, ReserveKeepsFunds DEF stake
<1>5. ASSUME NEW who \in Accounts, NEW amount \in Amounts, NEW target \in Holders,
             slash(who, target, amount)
      PROVE  Funds' = Funds
  BY <1>1, <1>5, SlashKeepsFunds
<1>6. CASE UNCHANGED stakeVars
  BY <1>6 DEF stakeVars, Funds
<1> QED BY <1>2, <1>3, <1>4, <1>5, <1>6 DEF Next

LEMMA FundsAtGenesis == StakeInit => FundsConserved
<1> SUFFICES ASSUME StakeInit PROVE FundsConserved
  OBVIOUS
<1> DEFINE endowed == [a \in Accounts |-> Endowment]
<1>1. /\ IsFiniteSet(Accounts) /\ treasury \notin Accounts
      /\ Endowment \in Nat /\ ExistentialDeposit \in Nat
  BY ProcessorStakeAssumption
<1>2. endowed \in [Accounts -> Nat] /\ \A a \in Accounts : endowed[a] = Endowment
  BY <1>1
<1>3. /\ free \in [Accounts \cup {treasury} -> Nat] /\ free[treasury] = ExistentialDeposit
      /\ \A a \in Accounts : free[a] = Endowment
  BY <1>1 DEF StakeInit, Holders
<1>4. reserved \in [Holders -> Nat] /\ \A h \in Holders : reserved[h] = 0
  BY DEF StakeInit
<1> HIDE DEF endowed
<1>5. Total(free) = ExistentialDeposit + Total(endowed)
  BY <1>1, <1>2, <1>3, TotalWithOneMore
<1>6. Total(reserved) = 0
  BY <1>4, HoldersAreFinite, TotalOfZeros
<1>7. Total(endowed) \in Nat
  BY <1>1, <1>2, TotalIsNat
<1>8. Total(free) + Total(reserved) = Total(endowed) + ExistentialDeposit
  BY <1>1, <1>5, <1>6, <1>7
<1> QED BY <1>8, SumIsTotal DEF FundsConserved, endowed

(* No sequence of calls creates or destroys funds, for any number of       *)
(* accounts and any amounts (lines 254-329).                               *)
THEOREM FundsAreConserved == StakeSpec => []FundsConserved
<1>1. FundsConserved /\ StakeInv /\ StakeInv' /\ [Next]_stakeVars => FundsConserved'
  <2> SUFFICES ASSUME FundsConserved, StakeInv, StakeInv', [Next]_stakeVars PROVE FundsConserved'
    OBVIOUS
  <2>1. Funds' = Funds
    BY FundsKept
  <2>2. SumOf(free') + SumOf(reserved') = SumOf(free) + SumOf(reserved)
    BY <2>1, SumIsTotal DEF Funds
  <2> QED BY <2>2 DEF FundsConserved
<1> QED BY <1>1, FundsAtGenesis, StakeInvariant, PTL DEF StakeSpec
=============================================================================
