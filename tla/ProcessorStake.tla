--------------------------- MODULE ProcessorStake ---------------------------
(***************************************************************************)
(* Stakes of processors, pallets/ocw-pallet/src/lib.rs: stake, un_stake    *)
(* and slash, over the free and reserved balances of pallet_balances.      *)
(* Reserves carry no name, so the stake shares them with the deposits of   *)
(* other pallets of the runtime: pallet_elections_phragmen stands for them *)
(* with its candidacy bond.                                                *)
(*                                                                         *)
(* The runtime sets MinStakeAmount to 1, which leaves zero as the only     *)
(* amount that can be staked; the model takes any value.                   *)
(***************************************************************************)
EXTENDS Naturals, FiniteSets, Functions

CONSTANTS
    Accounts,
    treasury,           \* the account of MyPalletId
    ExistentialDeposit,
    MinStakeAmount,
    CandidacyBond,
    Endowment,          \* free balance of every account at genesis
    Amounts,            \* bound: the amounts calls are made with
    None

ASSUME ProcessorStakeAssumption ==
    /\ IsFiniteSet(Accounts)
    /\ treasury \notin Accounts
    /\ ExistentialDeposit \in Nat /\ MinStakeAmount \in Nat
    /\ CandidacyBond \in Nat /\ Endowment \in Nat
    /\ Amounts \subseteq Nat
    /\ None \notin Nat

Holders == Accounts \cup {treasury}

VARIABLES
    free, reserved,     \* pallet_balances
    staked,             \* StakedProcessors: total_stake, or None
    bonds,              \* deposits the elections pallet believes it holds
    disturbed           \* history: who was slashed, or un-staked with a bond

stakeVars == <<free, reserved, staked, bonds, disturbed>>

StakeTypeOK ==
    /\ free \in [Holders -> Nat]
    /\ reserved \in [Holders -> Nat]
    /\ staked \in [Accounts -> Nat \cup {None}]
    /\ bonds \in [Accounts -> Nat]
    /\ disturbed \subseteq Accounts

(* The genesis build gives the treasury the existential deposit.           *)
StakeInit ==
    /\ free = [h \in Holders |-> IF h = treasury THEN ExistentialDeposit ELSE Endowment]
    /\ reserved = [h \in Holders |-> 0]
    /\ staked = [a \in Accounts |-> None]
    /\ bonds = [a \in Accounts |-> 0]
    /\ disturbed = {}

-----------------------------------------------------------------------------
(* pallet_balances                                                         *)

CanReserve(who, amount) == amount = 0 \/ free[who] >= amount + ExistentialDeposit

reserve(who, amount) ==
    /\ free' = [free EXCEPT ![who] = @ - amount]
    /\ reserved' = [reserved EXCEPT ![who] = @ + amount]

AtMost(who, amount) == IF amount < reserved[who] THEN amount ELSE reserved[who]

unreserve(who, amount) ==
    /\ free' = [free EXCEPT ![who] = @ + AtMost(who, amount)]
    /\ reserved' = [reserved EXCEPT ![who] = @ - AtMost(who, amount)]

-----------------------------------------------------------------------------

\* Mutant: who staked already may stake again.
stake_again(who, stake_amount) ==
    /\ stake_amount < MinStakeAmount
    /\ CanReserve(who, stake_amount)
    /\ reserve(who, stake_amount)
    /\ staked' = [staked EXCEPT ![who] = stake_amount]
    /\ UNCHANGED <<bonds, disturbed>>

(* If the reserve fails the call only logs it, and succeeds.               *)
stake(who, stake_amount) ==
    /\ staked[who] = None
    /\ stake_amount < MinStakeAmount
    /\ CanReserve(who, stake_amount)
    /\ reserve(who, stake_amount)
    /\ staked' = [staked EXCEPT ![who] = stake_amount]
    /\ UNCHANGED <<bonds, disturbed>>

(* Everything that is reserved is released, whoever reserved it.           *)
un_stake(who) ==
    /\ staked[who] # None
    /\ unreserve(who, reserved[who])
    /\ staked' = [staked EXCEPT ![who] = None]
    /\ disturbed' = IF bonds[who] = 0 THEN disturbed ELSE disturbed \cup {who}
    /\ UNCHANGED bonds

\* Mutant: the slashed amount is not limited by what the target has.
slash_beyond_reserve(who, mock_target, slash_amount) ==
    /\ reserved[who] < slash_amount /\ staked[who] = None
    /\ reserved' = [reserved EXCEPT ![mock_target] = @ - slash_amount]
    /\ free' = [free EXCEPT ![treasury] = @ + slash_amount]
    /\ disturbed' = (disturbed \cup {mock_target}) \cap Accounts
    /\ UNCHANGED <<staked, bonds>>

\* Mutant: the imbalance is dropped.
slash_and_burn(who, mock_target, slash_amount) ==
    /\ reserved[who] < slash_amount /\ staked[who] = None
    /\ reserved' = [reserved EXCEPT ![mock_target] = @ - AtMost(mock_target, slash_amount)]
    /\ UNCHANGED <<free, staked, bonds, disturbed>>

(* The caller, not the target, is looked at.  slash_reserved returns what  *)
(* it could not slash, which only the event uses.                          *)
slash(who, mock_target, slash_amount) ==
    LET taken == AtMost(mock_target, slash_amount) IN
    /\ reserved[who] < slash_amount /\ staked[who] = None
    /\ reserved' = [reserved EXCEPT ![mock_target] = @ - taken]
    /\ free' = [free EXCEPT ![treasury] = @ + taken]
    /\ disturbed' = (disturbed \cup {mock_target}) \cap Accounts
    /\ UNCHANGED <<staked, bonds>>

(* The elections pallet takes its bond, and gives it back, ignoring what   *)
(* is missing.                                                             *)
submit_candidacy(who) ==
    /\ bonds[who] = 0
    /\ CanReserve(who, CandidacyBond)
    /\ reserve(who, CandidacyBond)
    /\ bonds' = [bonds EXCEPT ![who] = CandidacyBond]
    /\ UNCHANGED <<staked, disturbed>>

renounce_candidacy(who) ==
    /\ bonds[who] > 0
    /\ unreserve(who, bonds[who])
    /\ bonds' = [bonds EXCEPT ![who] = 0]
    /\ UNCHANGED <<staked, disturbed>>

Next ==
    \E who \in Accounts :
        \/ un_stake(who) \/ submit_candidacy(who) \/ renounce_candidacy(who)
        \/ \E amount \in Amounts :
              \/ stake(who, amount)
              \/ \E target \in Holders : slash(who, target, amount)

StakeSpec == StakeInit /\ [][Next]_stakeVars

-----------------------------------------------------------------------------
(* Properties                                                              *)

(* No call creates or destroys funds: what is slashed goes to the treasury *)
(* and what is staked or bonded comes back (lines 254-329).                *)
SumOf(f) == FoldFunction(+, 0, f)
FundsConserved ==
    SumOf(free) + SumOf(reserved) = SumOf([a \in Accounts |-> Endowment]) + ExistentialDeposit

StakeOf(a) == IF staked[a] = None THEN 0 ELSE staked[a]

(* The stake of an account and its other deposits are fully reserved, in   *)
(* any sequence of calls, unless it has once been slashed, or un-staked    *)
(* while it had other deposits: then what a later call of another pallet   *)
(* takes back may be the stake (lines 279-329).                            *)
DepositsAreReserved ==
    \A a \in Accounts \ disturbed : reserved[a] = StakeOf(a) + bonds[a]

-----------------------------------------------------------------------------
(* A claim of the source that its code does not keep                       *)

(* ensure!(stake_amount < T::MinStakeAmount::get().into(),                 *)
(* Error::<T>::InsufficientFund) (line 257): an amount that is refused is  *)
(* too small, so a stake is at least MinStakeAmount.                       *)
StakesAreSufficient ==
    \A a \in Accounts : staked[a] # None => staked[a] >= MinStakeAmount
=============================================================================
