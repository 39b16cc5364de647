------------------------------ MODULE Payloads ------------------------------
(***************************************************************************)
(* Reading and writing one 32-bit word of a device in FEL mode by code     *)
(* that runs there: the host writes a small program into the scratch area  *)
(* (data_start_address), its parameters behind it, executes it, and for a  *)
(* read fetches the word the program left.                                 *)
(*                                                                         *)
(* The program is chosen by architecture through one global variable of    *)
(* the process; contexts of several devices may be in use at once.  Each   *)
(* FEL command is a step and may fail with or without its effect.  The     *)
(* device is external: it runs what is in its scratch area, and hangs on   *)
(* code of another architecture or code that was written in part.          *)
(***************************************************************************)
EXTENDS Integers, FiniteSets

CONSTANTS
  Ctxs,       \* contexts, each with a device of its own
  ArchsOf,    \* the architectures a device may have
  InitArchs,  \* the architectures the application selects
  Words,      \* device words outside the scratch area
  Values,     \* their contents
  NULL,       \* no payload selected, no value
  MaxCalls,   \* bound: calls of all contexts
  MaxFaults   \* bound: FEL commands that fail

Archs == {"arm32", "aarch64", "riscv"}
Ops == {"readl", "writel"}

ASSUME PayloadsAssumption ==
  /\ ArchsOf \subseteq Archs /\ InitArchs \subseteq Archs
  /\ MaxCalls \in Nat /\ MaxFaults \in Nat
  /\ Words \cap Values = {} /\ NULL \notin Words \cup Values

VARIABLES
  current_payload,  \* static struct payloads_ops *
  call,             \* per context: the call in progress and its next command
  arch,             \* per device: its architecture
  scratch,          \* per device: the words from data_start_address on
  word,             \* per device: contents of the other words
  hung,             \* per device: it ran something that was no payload of it
  before,           \* ghost: the words of the device when the call began
  calls, faults     \* bounds
vars == <<current_payload, call, arch, scratch, word, hung, before, calls, faults>>

(* Instructions of each program, as 32-bit words: sizeof(payload) / 4.     *)
PayloadWords(a, op) == IF a = "arm32" /\ op = "writel" THEN 11 ELSE 12

(* Where the programs look for their parameters.  Arm: the word of the     *)
(* instruction, two for the pipeline and the literal offset; RISC-V: the   *)
(* word of the auipc and the offset added to it.                           *)
AddrWord(a, op) ==
  CASE a = "arm32" /\ op = "readl"  -> 7 + 2 + 3   \* ldr r0, [pc, #12]
    [] a = "arm32" /\ op = "writel" -> 7 + 2 + 2   \* ldr r0, [pc, #8]
    [] OTHER                           -> 4 + 8       \* auipc t0; addi t0, t0, 32
ValueWord(a, op) ==
  CASE a = "arm32" /\ op = "readl"  -> 8 + 2 + 3   \* add r1, pc, #12
    [] a = "arm32" /\ op = "writel" -> 8 + 2 + 2   \* ldr r1, [pc, #8]
    [] a = "riscv" /\ op = "readl"  -> 8 + 5       \* auipc t1; addi t1, t1, 20
    [] OTHER                           -> 7 + 6       \* auipc t1; addi t1, t1, 24

ScratchWords == 0..13
Code(a, op, i) == [arch |-> a, op |-> op, at |-> i, data |-> NULL]
Data(v) == [arch |-> "data", op |-> "data", at |-> 0, data |-> v]
Cell == [arch : Archs \cup {"data"}, op : Ops \cup {"data"}, at : ScratchWords,
         data : Words \cup Values \cup {NULL}]

Steps == {"idle", "code", "params", "exec", "fetch"}
Refusals == {"INVALID_DEVICE_MODE", "NOT_SUPPORT"}
Results == {"none", "SUCCESS", "FEL"} \cup Refusals   \* "FEL": the error of the command
Call == [op : Ops, arch : Archs, addr : Words \cup {NULL}, val : Values \cup {NULL},
         step : Steps, result : Results]
NoCall == [op |-> "readl", arch |-> "arm32", addr |-> NULL, val |-> NULL,
           step |-> "idle", result |-> "none"]

TypeOK ==
  /\ current_payload \in Archs \cup {NULL}
  /\ call \in [Ctxs -> Call]
  /\ arch \in [Ctxs -> ArchsOf]
  /\ scratch \in [Ctxs -> [ScratchWords -> Cell]]
  /\ word \in [Ctxs -> [Words -> Values]] /\ before \in [Ctxs -> [Words -> Values]]
  /\ hung \in [Ctxs -> BOOLEAN]
  /\ calls \in Nat /\ faults \in Nat

Init ==
  /\ current_payload = NULL
  /\ call = [c \in Ctxs |-> NoCall]
  /\ arch \in [Ctxs -> ArchsOf]
  /\ scratch = [c \in Ctxs |-> [i \in ScratchWords |-> Data(NULL)]]
  /\ word \in [Ctxs -> [Words -> Values]]
  /\ hung = [c \in Ctxs |-> FALSE]
  /\ before = word
  /\ calls = 0 /\ faults = 0

(* sunxi_efex_fel_payloads_init *)
PayloadsInit ==
  /\ current_payload' \in InitArchs
  /\ UNCHANGED <<call, arch, scratch, word, hung, before, calls, faults>>

(* Mutant: a program of the architecture that is already there is kept.    *)
FirstStepOnce(c) == IF scratch[c][0].arch = current_payload THEN "params" ELSE "code"

FirstStep(c) == "code"

(* A context that is not in FEL mode refuses; so do the aarch64 programs   *)
(* and a process that selected none.                                       *)
Refusal(felMode) ==
  CASE ~felMode                               -> "INVALID_DEVICE_MODE"
    [] felMode /\ current_payload \notin {"arm32", "riscv"} -> "NOT_SUPPORT"
    [] OTHER                                  -> "none"

(* sunxi_efex_fel_payloads_readl and _writel.  The payload is read from    *)
(* the global once, here.                                                  *)
Start(c) ==
  /\ call[c].step = "idle" /\ calls < MaxCalls
  /\ calls' = calls + 1
  /\ before' = [before EXCEPT ![c] = word[c]]
  /\ \E op \in Ops, a \in Words, v \in Values, felMode \in BOOLEAN :
       call' = [call EXCEPT ![c] =
         [op |-> op, arch |-> IF current_payload = NULL THEN "arm32" ELSE current_payload,
          addr |-> a, val |-> IF op = "writel" THEN v ELSE NULL,
          step |-> IF Refusal(felMode) = "none" THEN FirstStep(c) ELSE "idle",
          result |-> Refusal(felMode)]]
  /\ UNCHANGED <<current_payload, arch, scratch, word, hung, faults>>

(* A FEL command of c ends: the call goes on, returns, or returns early    *)
(* with the error of the command.                                          *)
Continue(c, step) == call' = [call EXCEPT ![c].step = step] /\ UNCHANGED faults
Return(c, val) ==
  /\ call' = [call EXCEPT ![c].step = "idle", ![c].result = "SUCCESS", ![c].val = val]
  /\ UNCHANGED faults

(* Returns at once with the error of the command.                          *)
Fail(c) ==
  /\ faults < MaxFaults /\ faults' = faults + 1
  /\ call' = [call EXCEPT ![c].step = "idle", ![c].result = "FEL"]

(* Words first to last of the scratch area of c become Content(i); a write *)
(* that fails may have stored any beginning of them: none, some or all.    *)
StorePart(c, first, last, Content(_), upto) ==
  scratch' = [scratch EXCEPT ![c] = [i \in ScratchWords |->
                IF i \in first..last /\ i < upto THEN Content(i) ELSE @[i]]]
StoreAll(c, first, last, Content(_)) == StorePart(c, first, last, Content, last + 1)

WriteCode(c) ==
  LET k == call[c]
      Content(i) == Code(k.arch, k.op, i)
      n == PayloadWords(k.arch, k.op)
  IN /\ k.step = "code" /\ ~hung[c]
     /\ \/ StoreAll(c, 0, n - 1, Content) /\ Continue(c, "params")
        \/ \E upto \in {0, n - 1, n} : StorePart(c, 0, n - 1, Content, upto) /\ Fail(c)
     /\ UNCHANGED <<current_payload, arch, word, hung, before, calls>>

(* Mutant: the parameters are put behind twelve words, the size of the     *)
(* other programs.                                                         *)
ParamsAtTwelve(k) == 12

(* sizeof(payload) behind the scratch address.                             *)
ParamsAt(k) == PayloadWords(k.arch, k.op)

WriteParams(c) ==
  LET k == call[c]
      Content(i) == IF i = ParamsAt(k) THEN Data(k.addr) ELSE Data(k.val)
      last == IF k.op = "readl" THEN ParamsAt(k) ELSE ParamsAt(k) + 1
  IN /\ k.step = "params" /\ ~hung[c]
     /\ \/ StoreAll(c, ParamsAt(k), last, Content) /\ Continue(c, "exec")
        \/ \E upto \in {0, ParamsAt(k) + 1, last + 1} :
             StorePart(c, ParamsAt(k), last, Content, upto) /\ Fail(c)
     /\ UNCHANGED <<current_payload, arch, word, hung, before, calls>>

(* What the device does with its scratch area: the program in it and, if   *)
(* it is a whole program of the device's architecture, its effect.         *)
Runs(c, op) ==
  \A i \in 0..(PayloadWords(arch[c], op) - 1) : scratch[c][i] = Code(arch[c], op, i)
LoadedAddr(c, op) == scratch[c][AddrWord(arch[c], op)].data
LoadedValue(c, op) == scratch[c][ValueWord(arch[c], op)].data

RunsRead(c) ==
  /\ Runs(c, "readl") /\ LoadedAddr(c, "readl") \in Words
  /\ scratch' = [scratch EXCEPT ![c][ValueWord(arch[c], "readl")] =
                   Data(word[c][LoadedAddr(c, "readl")])]
  /\ UNCHANGED <<word, hung>>

RunsWrite(c) ==
  /\ Runs(c, "writel")
  /\ LoadedAddr(c, "writel") \in Words /\ LoadedValue(c, "writel") \in Values
  /\ word' = [word EXCEPT ![c][LoadedAddr(c, "writel")] = LoadedValue(c, "writel")]
  /\ UNCHANGED <<scratch, hung>>

RunsAnything(c) ==
  /\ \A op \in Ops : Runs(c, op) =>
       \/ LoadedAddr(c, op) \notin Words
       \/ op = "writel" /\ LoadedValue(c, op) \notin Values
  /\ hung' = [hung EXCEPT ![c] = TRUE]
  /\ UNCHANGED <<scratch, word>>

NothingRuns == UNCHANGED <<scratch, word, hung>>

Execute(c) ==
  LET k == call[c]
      effect == RunsRead(c) \/ RunsWrite(c)
  IN /\ k.step = "exec" /\ ~hung[c]
     /\ \/ effect /\ (IF k.op = "readl" THEN Continue(c, "fetch") ELSE Return(c, k.val))
        \/ (effect \/ NothingRuns) /\ Fail(c)
        \/ RunsAnything(c) /\ UNCHANGED <<call, faults>>
     /\ UNCHANGED <<current_payload, arch, before, calls>>

(* Mutant: the word behind the program is fetched, where the address is.   *)
FetchAtParams(k) == ParamsAt(k)

(* One word behind the address parameter.                                  *)
FetchAt(k) == ParamsAt(k) + 1

Fetch(c) ==
  LET k == call[c]
  IN /\ k.step = "fetch" /\ ~hung[c]
     /\ \/ Return(c, scratch[c][FetchAt(k)].data)
        \/ Fail(c)
     /\ UNCHANGED <<current_payload, arch, scratch, word, hung, before, calls>>

(* Mutant: a command without an answer is tried again.                     *)
NoAnswerRepeats(c) ==
  /\ call[c].step # "idle" /\ hung[c]
  /\ UNCHANGED vars

(* A device that hangs answers no command: it times out, with an error.    *)
NoAnswer(c) ==
  /\ call[c].step # "idle" /\ hung[c]
  /\ call' = [call EXCEPT ![c].step = "idle", ![c].result = "FEL"]
  /\ UNCHANGED <<current_payload, arch, scratch, word, hung, before, calls, faults>>

Next ==
  \/ PayloadsInit
  \/ \E c \in Ctxs : \/ Start(c) \/ WriteCode(c) \/ WriteParams(c) \/ Execute(c)
                     \/ Fetch(c) \/ NoAnswer(c)

Spec == Init /\ [][Next]_vars
FairSpec == Spec /\ \A c \in Ctxs :
  WF_vars(WriteCode(c) \/ WriteParams(c) \/ Execute(c) \/ Fetch(c) \/ NoAnswer(c))

----------------------------------------------------------------------------
Done(c) == call[c].step = "idle" /\ call[c].result = "SUCCESS"

(* A successful readl returns the word at the address it was asked for,    *)
(* whatever earlier calls, also failed ones, left in the scratch area.     *)
ReadlTrue ==
  \A c \in Ctxs : Done(c) /\ call[c].op = "readl" => call[c].val = word[c][call[c].addr]

(* Nothing but the call changes the words of the device outside the        *)
(* scratch area.  A writel changes none but the one it was asked for, and  *)
(* that one only to its value: after success it has it, after a failure it *)
(* may.  A readl changes none: it does not run the program of an earlier   *)
(* writel that is still there.                                             *)
WordsExact ==
  \A c \in Ctxs : call[c].addr \in Words =>
    LET k == call[c]
        written == IF k.op = "writel" THEN [before[c] EXCEPT ![k.addr] = k.val] ELSE before[c]
    IN /\ word[c] \in {before[c], written}
       /\ Done(c) => word[c] = written

(* What hangs a device is only ever the call that sent it a program of     *)
(* another architecture, which the global current_payload makes a matter   *)
(* of every context of the process: no earlier call, and no call that      *)
(* failed half way, leaves a program behind that a later one trips over.   *)
HangsOnForeignOnly ==
  [][\A c \in Ctxs : hung'[c] /\ ~hung[c] => call[c].arch # arch[c]]_vars

(* Every call returns.                                                     *)
Returns == \A c \in Ctxs : call[c].step # "idle" ~> call[c].step = "idle"
=============================================================================
