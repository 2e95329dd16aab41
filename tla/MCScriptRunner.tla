--------------------------- MODULE MCScriptRunner ---------------------------
(* Scripts for TLC: every shape of Output with up to three fields, and a   *)
(* script for each way to fail before the decoder starts.                  *)
EXTENDS ScriptRunner

Of(kind) == [kind |-> kind, of |-> "none"]
Arrays == {[kind |-> "array", of |-> name] : name \in {"CryptoValue", "Missing"}}
FieldChoices == {Of("i32"), Of("f64"), Of("string"), Of("byte")} \cup Arrays
Narrow == {<<Of(first), Of(last)>> : first \in {"i64", "f32"}, last \in {"i32", "f32", "i64"}}
Others == {<<Of(first), Of(last)>> : first \in OtherKinds, last \in {"i32", "i64"}}
Shapes == UNION {[1..n -> FieldChoices] : n \in 1..3} \cup Narrow \cup Others

Crypto == [name |-> "CryptoValue", fields |-> <<Of("f32")>>]
OutputOf(fields) == [name |-> "Output", fields |-> fields]

WithClasses(classes) ==
    [parses |-> TRUE, compiles |-> TRUE, imports |-> <<"func">>, memory |-> 65536,
     exports |-> {"memory", "process", "url"}, classes |-> classes]

Plain == WithClasses(<<Crypto, OutputOf(<<Of("i64")>>)>>)
Redefined == WithClasses(<<OutputOf(<<Of("i64")>>), OutputOf(<<Of("f32")>>)>>)

MCScripts ==
    {WithClasses(<<OutputOf(fields), Crypto>>) : fields \in Shapes}
    \cup {Redefined, WithClasses(<<Crypto>>),
          [Plain EXCEPT !.parses = FALSE], [Plain EXCEPT !.compiles = FALSE],
          [Plain EXCEPT !.memory = 0], [Plain EXCEPT !.exports = {"memory", "process"}]}
    \cup {[Plain EXCEPT !.imports = <<first, second>>] : first, second \in ImportKinds}

MCPointers == {0, 64, 65532, 70000}
MCAnswerSizes == {100, 70000}
MCLengths == 0..2
MCMemorySizes == {65536}
=============================================================================
