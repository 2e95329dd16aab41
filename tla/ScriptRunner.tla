----------------------------- MODULE ScriptRunner ----------------------------
(***************************************************************************)
(* One run of a script on a blocking task of the node's executor:          *)
(* process_wasm (node/src/scripts_exec_manager.rs), which calls abi_reader *)
(* (script-executor/src/runtime.rs), which registers the classes of the    *)
(* ABI, links and instantiates the binary, fetches the URL the script      *)
(* exports, writes the answer at address 0, calls "process", and decodes   *)
(* the object it returns, field by field, from the script's memory.        *)
(*                                                                         *)
(*   abi -> link -> instance -> exports -> fetch -> write -> call ->       *)
(*   decode (<-> element) -> done        and from everywhere: panic        *)
(*                                                                         *)
(* Whatever fails, the task panics: an Err that "?" passes on ends in the  *)
(* expect of abi_reader or in that of process_wasm.  What the memory holds *)
(* is up to the script: an address read from it is any of Pointers, and a  *)
(* value is known by its address.  The layout of objects in memory is that *)
(* of the script's compiler (external): each field is aligned to its size. *)
(***************************************************************************)
EXTENDS Naturals, Sequences, FiniteSets

CONSTANTS
    Scripts,      \* ABIs and binaries
    Pointers,     \* addresses a script may return or store, 0 is null
    AnswerSizes,  \* bytes of what the fetched URL answers
    Lengths,      \* lengths of arrays
    MemorySizes   \* what a script may have grown its memory to

ClassNames == {"Output", "CryptoValue", "Missing", "none"}
(* Types without an arm of their own in the decoder, by their size: bool,  *)
(* u8, i8; u16, i16; u32, usize, references; u64.                          *)
OtherKinds == {"byte", "half", "word", "long"}
Kinds == {"i32", "f32", "i64", "f64", "string", "array"} \cup OtherKinds
FieldTypes == [kind : Kinds, of : ClassNames]
ImportKinds == {"func", "table", "global", "unsupported"}
Classes == [name : ClassNames, fields : Seq(FieldTypes)]
ScriptType ==
    [parses : BOOLEAN, compiles : BOOLEAN, imports : Seq(ImportKinds), memory : Nat,
     exports : SUBSET {"memory", "process", "url"}, classes : Seq(Classes)]

ASSUME ScriptRunnerAssumption ==
    /\ Scripts \subseteq ScriptType
    /\ Pointers \cup AnswerSizes \cup Lengths \cup MemorySizes \subseteq Nat

VARIABLES
    script,    \* what is run
    pc,
    given,     \* number of externs collected for the imports
    memory,    \* size of the instance's memory
    answer,    \* size of the fetched answer
    base,      \* output_offset: where process says the object is
    field,     \* the field that is decoded next
    offset,    \* offset_val
    array,     \* the array being decoded: where, length, elements so far
    items,     \* what has been appended to bytes_result
    end        \* history: where the fields passed so far end in the object

setup == <<given, memory, answer, base>>
decoder == <<field, offset, array, items, end>>
runVars == <<script, pc, setup, decoder>>

ArrayAt(data, length) == [at |-> data, length |-> length, seen |-> <<>>, values |-> <<>>]
NoArray == ArrayAt(0, 0)
Text(address) == [at |-> 0, length |-> 0, seen |-> <<>>, values |-> <<address>>]
ArrayType == [at : Nat, length : Nat, seen : Seq(Nat), values : Seq(Nat)]
Items == [kind : Kinds, nth : Nat \ {0}, at : Nat, home : Nat, array : ArrayType]

RunnerTypeOK ==
    /\ script \in Scripts
    /\ pc \in {"abi", "link", "instance", "exports", "fetch", "write", "call",
               "decode", "element", "done", "panic"}
    /\ given \in Nat /\ memory \in Nat /\ answer \in Nat /\ base \in Nat
    /\ field \in Nat \ {0} /\ offset \in Nat
    /\ array \in ArrayType
    /\ items \in Seq(Items)
    /\ end \in Nat

RunnerInit ==
    /\ script \in Scripts
    /\ pc = "abi"
    /\ given = 0 /\ memory = 0 /\ answer = 0 /\ base = 0
    /\ field = 1 /\ offset = 0 /\ array = NoArray /\ items = <<>>
    /\ end = 0

-----------------------------------------------------------------------------
(* The registry of the ABI: of two classes with one name the last counts.  *)
(* Functions and variables are registered too and never looked up.         *)

Contains(name) == \E i \in 1..Len(script.classes) : script.classes[i].name = name

Schema(name) ==
    LET last == CHOOSE i \in 1..Len(script.classes) :
                   /\ script.classes[i].name = name
                   /\ \A k \in (i + 1)..Len(script.classes) : script.classes[k].name # name
    IN  script.classes[last].fields

Panics ==
    /\ pc' = "panic"
    /\ UNCHANGED <<script, setup, decoder>>

GoesTo(next) ==
    /\ pc' = next
    /\ UNCHANGED <<script, decoder>>

-----------------------------------------------------------------------------
(* From the ABI to the call                                                *)

ReadAbi ==
    /\ pc = "abi"
    /\ \/ script.parses /\ GoesTo("link") /\ UNCHANGED setup
       \/ ~script.parses /\ Panics

Imported(kinds) == {i \in 1..Len(script.imports) : script.imports[i] \in kinds}

(* A function becomes a stub that leaves its results alone, a table a      *)
(* table; for a global a value is built and dropped.                       *)
LinkImports ==
    /\ pc = "link"
    /\ IF script.compiles /\ Imported({"unsupported"}) = {}
       THEN /\ given' = Cardinality(Imported({"func", "table"}))
            /\ GoesTo("instance")
            /\ UNCHANGED <<memory, answer, base>>
       ELSE Panics

Grown(size) == {size} \cup {larger \in MemorySizes : larger > size}

\* Mutant: missing imports are not noticed.
InstantiateAnyway ==
    /\ pc = "instance"
    /\ \/ /\ memory' \in Grown(script.memory)
          /\ GoesTo("exports")
          /\ UNCHANGED <<given, answer, base>>
       \/ Panics

(* The number of externs has to be that of the imports.  A start function  *)
(* may grow the memory, trap, or never return.                             *)
Instantiate ==
    /\ pc = "instance"
    /\ \/ /\ given = Len(script.imports)
          /\ memory' \in Grown(script.memory)
          /\ GoesTo("exports")
          /\ UNCHANGED <<given, answer, base>>
       \/ Panics

TakeExports ==
    /\ pc = "exports"
    /\ IF script.exports = {"memory", "process", "url"}
       THEN GoesTo("fetch") /\ UNCHANGED setup
       ELSE Panics

(* Any body is an answer, whatever its status; an URL that is none, a      *)
(* refused connection or a broken body is an Err.  There is no deadline.   *)
Fetch(size) ==
    /\ pc = "fetch"
    /\ \/ GoesTo("write") /\ answer' = size /\ UNCHANGED <<given, memory, base>>
       \/ pc' = "panic" /\ UNCHANGED <<script, setup, decoder>>

ConfirmSize == 10240

(* Both the answer and the 10240 bytes that are read back have to fit.     *)
WriteAnswer ==
    /\ pc = "write"
    /\ IF answer <= memory /\ ConfirmSize <= memory
       THEN GoesTo("call") /\ UNCHANGED setup
       ELSE Panics

(* The script may grow its memory, trap, or never return.                  *)
CallProcess(pointer, size) ==
    /\ pc = "call"
    /\ \/ /\ size >= memory
          /\ memory' = size /\ base' = pointer
          /\ GoesTo("decode")
          /\ UNCHANGED <<given, answer>>
       \/ pc' = "panic" /\ UNCHANGED <<script, setup, decoder>>

-----------------------------------------------------------------------------
(* The decoder                                                             *)

Fields == IF Contains("Output") THEN Schema("Output") ELSE <<>>
Decoding == pc = "decode" /\ field <= Len(Fields)
Field == Fields[field]
Readable(at, size) == at + size <= memory

Scalars == {"i32", "f32", "i64", "f64"}

\* Mutant: the sizes of cal_output_size.
SwappedWidth(kind) == IF kind \in {"f32", "f64"} THEN 8 ELSE 4

Width(kind) == IF kind \in {"i64", "f64"} THEN 8 ELSE 4

(* Where the compiler places a field: aligned to its size (external).      *)
Size(kind) ==
    CASE kind = "byte" -> 1
      [] kind = "half" -> 2
      [] kind \in {"i64", "f64", "long"} -> 8
      [] OTHER -> 4
Place(kind) == IF end % Size(kind) = 0 THEN end ELSE end + (Size(kind) - (end % Size(kind)))
MoveOn(kind) == end' = Place(kind) + Size(kind)

Item(kind, contents) ==
    [kind |-> kind, nth |-> field, at |-> offset, home |-> Place(kind), array |-> contents]

Read(kind) ==
    /\ Readable(base + offset, Width(kind))
    /\ offset' = offset + Width(kind)
    /\ field' = field + 1
    /\ MoveOn(kind)

DecodeScalar ==
    /\ Decoding /\ Field.kind \in Scalars
    /\ Read(Field.kind)
    /\ items' = Append(items, Item(Field.kind, NoArray))
    /\ UNCHANGED <<script, pc, setup, array>>

StringWindow == 2048

\* Mutant: the address is appended, not the string.
DecodeStringAddress(pointer) ==
    /\ Decoding /\ Field.kind = "string"
    /\ Read("string")
    /\ items' = Append(items, Item("string", [at |-> pointer]))
    /\ UNCHANGED <<script, pc, setup, array>>

\* Mutant: a string that cannot be read is left out.
DecodeStringIfAny(pointer) ==
    /\ Decoding /\ Field.kind = "string"
    /\ Read("string")
    /\ \/ Readable(pointer, StringWindow)
          /\ items' = Append(items, Item("string", Text(pointer)))
       \/ UNCHANGED items
    /\ UNCHANGED <<script, pc, setup, array>>

(* A string is read as 1024 units, whatever its length: one that starts    *)
(* less than 2048 bytes before the end of memory, or is not UTF-16, is     *)
(* decoded as the empty string (the null address).                         *)
DecodeString(pointer) ==
    /\ Decoding /\ Field.kind = "string"
    /\ Read("string")
    /\ \E text \in {0, pointer} :
          /\ text # 0 => Readable(pointer, StringWindow)
          /\ items' = Append(items, Item("string", Text(text)))
    /\ UNCHANGED <<script, pc, setup, array>>

(* Four bytes are read for any other type, whatever its size, and dropped. *)
DecodeOther ==
    /\ Decoding /\ Field.kind \in OtherKinds
    /\ Read(Field.kind)
    /\ UNCHANGED <<script, pc, setup, array, items>>

(* An array of a class that the ABI does not have, or whose type does not  *)
(* end in ">", is passed over, and the offset stays.                       *)
SkipArray ==
    /\ Decoding /\ Field.kind = "array" /\ ~Contains(Field.of)
    /\ field' = field + 1
    /\ MoveOn("array")
    /\ UNCHANGED <<script, pc, setup, offset, array, items>>

(* The field points to a header of 16 bytes, that to the elements.         *)
DecodeArray(header, data, length) ==
    /\ Decoding /\ Field.kind = "array" /\ Contains(Field.of)
    /\ Readable(base + offset, Width("array"))
    /\ Readable(header, 16)
    /\ data # 0
    /\ array' = ArrayAt(data, length)
    /\ pc' = "element"
    /\ UNCHANGED <<script, setup, field, offset, items, end>>

ElementAt == array.at + 4 * Len(array.seen)

(* A null element is left out; of the others the first four bytes count.   *)
DecodeElement(pointer) ==
    /\ pc = "element" /\ Len(array.seen) < array.length
    /\ Readable(ElementAt, 4)
    /\ pointer # 0 => Readable(pointer, 4)
    /\ array' = [array EXCEPT !.seen = Append(@, pointer),
                              !.values = IF pointer = 0 THEN @ ELSE Append(@, pointer)]
    /\ UNCHANGED <<script, pc, setup, field, offset, items, end>>

\* Mutant: a null element ends the list.
EndArrayAtNull ==
    /\ pc = "element"
    /\ Len(array.seen) = array.length \/ \E i \in 1..Len(array.seen) : array.seen[i] = 0
    /\ Read("array")
    /\ items' = Append(items, Item("array", array))
    /\ array' = NoArray
    /\ pc' = "decode"
    /\ UNCHANGED <<script, setup>>

EndArray ==
    /\ pc = "element" /\ Len(array.seen) = array.length
    /\ Read("array")
    /\ items' = Append(items, Item("array", array))
    /\ array' = NoArray
    /\ pc' = "decode"
    /\ UNCHANGED <<script, setup>>

(* A read outside the memory is an Err, a null data pointer a panic.       *)
BadRead ==
    /\ \/ Decoding /\ ~(Field.kind = "array" /\ ~Contains(Field.of))
       \/ pc = "element" /\ Len(array.seen) < array.length
    /\ \/ Decoding /\ ~Readable(base + offset, Width(Field.kind))
       \/ Decoding /\ Field.kind = "array"
          /\ \E pointer \in Pointers : pointer = 0 \/ ~Readable(pointer, 16)
       \/ pc = "element" /\ ~Readable(ElementAt, 4)
       \/ pc = "element" /\ \E pointer \in Pointers : ~Readable(pointer, 4)
    /\ Panics

\* Mutant: no result when nothing was decoded.
ReportSomething ==
    /\ pc = "decode" /\ field > Len(Fields) /\ items # <<>>
    /\ GoesTo("done")
    /\ UNCHANGED setup

(* What has been decoded is the result.  The time that is reported with it *)
(* (scripts_exec_manager.rs:231-236) is no part of the model.              *)
Report ==
    /\ pc = "decode" /\ field > Len(Fields)
    /\ GoesTo("done")
    /\ UNCHANGED setup

Decode ==
    \/ DecodeScalar \/ DecodeOther \/ SkipArray \/ EndArray \/ BadRead \/ Report
    \/ \E p \in Pointers : DecodeString(p) \/ DecodeElement(p)
    \/ \E header, data \in Pointers, length \in Lengths : DecodeArray(header, data, length)

(* What the task does by itself, without waiting for script or server.     *)
Proceed == ReadAbi \/ LinkImports \/ TakeExports \/ WriteAnswer \/ Decode

RunnerNext ==
    \/ Proceed \/ Instantiate
    \/ \E size \in AnswerSizes : Fetch(size)
    \/ \E p \in Pointers, size \in MemorySizes : CallProcess(p, size)

RunnerSpec == RunnerInit /\ [][RunnerNext]_runVars

(* The task runs; nobody makes a server answer, or a script return from    *)
(* its start function or from process.                                     *)
FairRunnerSpec == RunnerSpec /\ WF_runVars(Proceed)

-----------------------------------------------------------------------------
(* Properties                                                              *)

(* The running offset_val (lines 270-374) knows neither alignment nor the  *)
(* sizes of types without an arm.  It is right for the n-th field if all   *)
(* fields up to it are of four bytes, or of eight after an even number of  *)
(* those: then the field is read where the object has it.                  *)
FourBytes(m) ==
    \/ Fields[m].kind \in {"i32", "f32", "string", "word"}
    \/ Fields[m].kind = "array" /\ Contains(Fields[m].of)
EightBytes(m) == Fields[m].kind \in {"i64", "f64"}
Before(n) == {m \in 1..(n - 1) : FourBytes(m)}
Regular(n) ==
    \A m \in 1..n : FourBytes(m) \/ (EightBytes(m) /\ Cardinality(Before(m)) % 2 = 0)

DecodedInPlace ==
    \A i \in 1..Len(items) : Regular(items[i].nth) => items[i].at = items[i].home

(* A result has no names, only an order (build_result, lines 400-403, is   *)
(* how it would be read): so each field that the decoder understands       *)
(* leaves one value, in the order of the ABI, though it is an empty string *)
(* or an empty list.  All others leave none (lines 274-374).               *)
Understood(m) ==
    \/ Fields[m].kind \in Scalars \cup {"string"}
    \/ Fields[m].kind = "array" /\ Contains(Fields[m].of)

ResultFollowsAbi ==
    pc = "done" =>
      /\ {items[i].nth : i \in 1..Len(items)} = {m \in 1..Len(Fields) : Understood(m)}
      /\ \A i, k \in 1..Len(items) : i < k => items[i].nth < items[k].nth
      /\ \A i \in 1..Len(items) : items[i].kind = Fields[items[i].nth].kind

(* A list is the array without its null elements, in the same order, and   *)
(* an array is never cut short without failing the run (lines 333-350).    *)
NonNull(seen) == {i \in 1..Len(seen) : seen[i] # 0}
OnlyNullsLeftOut(values, seen) ==
    \E from \in [1..Len(values) -> NonNull(seen)] :
        /\ \A i \in NonNull(seen) : \E k \in 1..Len(values) : from[k] = i
        /\ \A k, l \in 1..Len(values) : k < l => from[k] < from[l]
        /\ \A k \in 1..Len(values) : values[k] = seen[from[k]]
NullsAndOnlyNulls ==
    \A i \in 1..Len(items) : items[i].kind = "array" =>
        /\ OnlyNullsLeftOut(items[i].array.values, items[i].array.seen)
        /\ Len(items[i].array.seen) = items[i].array.length

(* No script that imports a global ever gives a result: the value built    *)
(* for it is dropped, so that the externs are too few when the instance is *)
(* made, two stages later (lines 201-209 and 219).                         *)
ResultNeedsItsImports == pc = "done" => Imported({"global", "unsupported"}) = {}

(* A run ends, or waits for ever in one of three places: for the script's *)
(* start function (line 219), for a server (https.rs:31-33), or for the    *)
(* call of process (line 264).  None of them has a limit, nothing else     *)
(* waits, and no list of the decoder goes on for ever.                     *)
RunEnds ==
    <>(pc \in {"done", "panic"}) \/ <>[](pc \in {"instance", "fetch", "call"})
=============================================================================
