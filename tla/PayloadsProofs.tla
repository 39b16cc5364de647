--------------------------- MODULE PayloadsProofs ---------------------------
(***************************************************************************)
(* Reading and writing words through payloads, for any number of contexts, *)
(* words and values, calls and failing commands: readl is true, words      *)
(* change as asked and by nothing else, and only foreign code hangs a      *)
(* device.                                                                 *)
(***************************************************************************)
EXTENDS Payloads, TLAPS

(* What the scratch area s holds for the call k.                           *)
CodeThere(k, s) == \A i \in 0..(PayloadWords(k.arch, k.op) - 1) : s[i] = Code(k.arch, k.op, i)
AddrThere(k, s) == s[ParamsAt(k)] = Data(k.addr)
ValueThere(k, s) == k.op = "writel" => s[ParamsAt(k) + 1] = Data(k.val)

(* A call in progress has arguments and an architecture that has programs. *)
Asks(k) ==
  k.step # "idle" => /\ k.arch \in {"arm32", "riscv"}
                     /\ k.addr \in Words
                     /\ k.op = "writel" => k.val \in Values

(* A call that has come this far has left this in the scratch area,        *)
(* whatever was there when it began.                                       *)
Prepared(k, s) ==
  /\ k.step \in {"params", "exec"} => CodeThere(k, s)
  /\ k.step = "exec" => AddrThere(k, s) /\ ValueThere(k, s)

(* The words w against those when the call began, b, and what it returned. *)
Written(k, b) == IF k.op = "writel" THEN [b EXCEPT ![k.addr] = k.val] ELSE b
Succeeded(k) == k.step = "idle" /\ k.result = "SUCCESS"
WordsInv(k, w, b) ==
  /\ k.step # "idle" => w = b
  /\ k.addr \in Words => /\ w \in {b, Written(k, b)}
                         /\ Succeeded(k) => w = Written(k, b)
ValueInv(k, s, w) ==
  /\ k.step = "fetch" => k.op = "readl" /\ s[FetchAt(k)] = Data(w[k.addr])
  /\ Succeeded(k) /\ k.op = "readl" => k.val = w[k.addr]

CallInv(k, s, w, b) == Asks(k) /\ Prepared(k, s) /\ WordsInv(k, w, b) /\ ValueInv(k, s, w)
Fits(c) == CallInv(call[c], scratch[c], word[c], before[c])

IInv == TypeOK /\ \A c \in Ctxs : Fits(c)

----------------------------------------------------------------------------
(* Sizes and places.                                                       *)
LEMMA Places ==
  ASSUME NEW a \in {"arm32", "riscv"}, NEW op \in Ops
  PROVE  /\ PayloadWords(a, op) \in 11..12
         /\ AddrWord(a, op) = PayloadWords(a, op)
         /\ ValueWord(a, op) = PayloadWords(a, op) + 1
  BY SMT DEF PayloadWords, AddrWord, ValueWord, Ops

LEMMA Sizes ==
  ASSUME NEW a, NEW op
  PROVE  PayloadWords(a, op) \in 11..12
  BY DEF PayloadWords

LEMMA Cells ==
  /\ \A a \in Archs, op \in Ops, i \in ScratchWords : Code(a, op, i) \in Cell
  /\ \A v \in Words \cup Values \cup {NULL} : Data(v) \in Cell
  BY DEF Code, Data, Cell, ScratchWords

(* What the types say about one context.                                   *)
LEMMA CtxTypes ==
  ASSUME TypeOK, NEW c \in Ctxs
  PROVE  /\ call[c].op \in Ops /\ call[c].arch \in Archs /\ call[c].addr \in Words \cup {NULL}
         /\ call[c].val \in Values \cup {NULL} /\ call[c].step \in Steps
         /\ call[c].result \in Results
         /\ scratch[c] \in [ScratchWords -> Cell]
         /\ word[c] \in [Words -> Values] /\ before[c] \in [Words -> Values]
         /\ arch[c] \in Archs
  BY PayloadsAssumption DEF TypeOK, Call

(* A step of one context leaves the others alone.                          *)
LEMMA Others ==
  ASSUME IInv, TypeOK', NEW c \in Ctxs, Fits(c)',
         \A d \in Ctxs \ {c} : /\ call'[d] = call[d] /\ scratch'[d] = scratch[d]
                               /\ word'[d] = word[d] /\ before'[d] = before[d]
  PROVE  IInv'
<1>1. ASSUME NEW d \in Ctxs \ {c} PROVE Fits(d)'
  BY <1>1 DEF Fits, IInv
<1> QED BY <1>1 DEF IInv

(* A failed command ends the call; of the scratch area nothing is claimed. *)
LEMMA FailFits ==
  ASSUME TypeOK, NEW c \in Ctxs, Fits(c), call[c].step # "idle",
         NEW k, k = [call[c] EXCEPT !.step = "idle", !.result = "FEL"],
         NEW s, NEW w, w \in {before[c], Written(call[c], before[c])}
  PROVE  CallInv(k, s, w, before[c])
<1>1. /\ k.step = "idle" /\ k.result = "FEL" /\ k.op = call[c].op /\ k.addr = call[c].addr
      /\ k.val = call[c].val
  BY CtxTypes DEF TypeOK, Call
<1>2. Written(k, before[c]) = Written(call[c], before[c])
  BY <1>1 DEF Written
<1> QED BY <1>1, <1>2 DEF CallInv, Asks, Prepared, WordsInv, ValueInv, Succeeded

LEMMA InitFits == Init => IInv
<1> SUFFICES ASSUME Init PROVE IInv
  OBVIOUS
<1>1. NoCall \in Call
  BY DEF NoCall, Call, Ops, Archs, Steps, Results
<1>2. TypeOK
  BY <1>1, Cells DEF Init, TypeOK
<1>3. ASSUME NEW c \in Ctxs PROVE Fits(c)
  <2>1. call[c] = NoCall /\ before[c] = word[c]
    BY DEF Init
  <2>2. NoCall.step = "idle" /\ NoCall.result = "none" /\ NoCall.addr = NULL
    BY DEF NoCall
  <2> QED BY <2>1, <2>2, PayloadsAssumption
          DEF Fits, CallInv, Asks, Prepared, WordsInv, ValueInv, Succeeded
<1> QED BY <1>2, <1>3 DEF IInv

(***************************************************************************)
(* The steps.                                                              *)
(***************************************************************************)
LEMMA StartFits ==
  ASSUME IInv, NEW c \in Ctxs, Start(c)
  PROVE  IInv'
<1>0. TypeOK /\ calls \in Nat
  BY DEF IInv, TypeOK
<1>1. PICK op \in Ops, a \in Words, v \in Values, felMode \in BOOLEAN :
        call' = [call EXCEPT ![c] =
         [op |-> op, arch |-> IF current_payload = NULL THEN "arm32" ELSE current_payload,
          addr |-> a, val |-> IF op = "writel" THEN v ELSE NULL,
          step |-> IF Refusal(felMode) = "none" THEN FirstStep(c) ELSE "idle",
          result |-> Refusal(felMode)]]
  BY DEF Start
<1> DEFINE k == call'[c]
           r == Refusal(felMode)
<1>2. r \in Refusals \cup {"none"} /\ (r = "none" => current_payload \in {"arm32", "riscv"})
  BY DEF Refusal, Refusals
<1>3. /\ k.op = op /\ k.addr = a /\ k.val = (IF op = "writel" THEN v ELSE NULL)
      /\ k.arch = (IF current_payload = NULL THEN "arm32" ELSE current_payload)
      /\ k.step = (IF r = "none" THEN "code" ELSE "idle") /\ k.result = r
  BY <1>0, <1>1 DEF TypeOK, FirstStep
<1>4. /\ calls' = calls + 1 /\ before' = [before EXCEPT ![c] = word[c]]
      /\ UNCHANGED <<current_payload, arch, scratch, word, hung, faults>>
  BY DEF Start
<1>5. TypeOK'
  <2>1. IF current_payload = NULL THEN "arm32" \in Archs ELSE current_payload \in Archs
    BY <1>0 DEF TypeOK, Archs
  <2>2. /\ (IF op = "writel" THEN v ELSE NULL) \in Values \cup {NULL}
        /\ (IF r = "none" THEN FirstStep(c) ELSE "idle") \in Steps
        /\ r \in Results
    BY <1>2 DEF FirstStep, Steps, Results
  <2> HIDE DEF r
  <2>3. call' \in [Ctxs -> Call]
    BY <1>0, <1>1, <2>1, <2>2 DEF TypeOK, Call, r
  <2>4. before' \in [Ctxs -> [Words -> Values]]
    BY <1>0, <1>4, CtxTypes DEF TypeOK
  <2> QED BY <1>0, <1>4, <2>3, <2>4 DEF TypeOK
<1>6. Fits(c)'
  <2>1. before'[c] = word[c] /\ word'[c] = word[c]
    BY <1>0, <1>4 DEF TypeOK
  <2>2. r = "none" => k.arch \in {"arm32", "riscv"}
    BY <1>2, <1>3
  <2> HIDE DEF k, r
  <2>3. k.result # "SUCCESS" /\ k.step \in {"code", "idle"}
    BY <1>2, <1>3 DEF Refusals
  <2>4. CallInv(k, scratch'[c], word'[c], before'[c])
    BY <1>3, <2>1, <2>2, <2>3 DEF CallInv, Asks, Prepared, WordsInv, ValueInv, Succeeded
  <2> QED BY <2>4 DEF Fits, k
<1>7. \A d \in Ctxs \ {c} : /\ call'[d] = call[d] /\ scratch'[d] = scratch[d]
                            /\ word'[d] = word[d] /\ before'[d] = before[d]
  BY <1>0, <1>1, <1>4 DEF TypeOK
<1> QED BY <1>5, <1>6, <1>7, Others

(* A step of the call of c: what follows from its new record, scratch area *)
(* and words.                                                              *)
LEMMA CallStep ==
  ASSUME IInv, NEW c \in Ctxs, NEW k \in Call, NEW s \in [ScratchWords -> Cell],
         NEW w \in [Words -> Values],
         call' = [call EXCEPT ![c] = k], scratch' = [scratch EXCEPT ![c] = s],
         word' = [word EXCEPT ![c] = w], hung' \in [Ctxs -> BOOLEAN],
         UNCHANGED <<current_payload, arch, before, calls>>,
         UNCHANGED faults \/ faults' = faults + 1,
         CallInv(k, s, w, before[c])
  PROVE  IInv'
<1>0. TypeOK
  BY DEF IInv
<1>1. TypeOK'
  <2>1. call' \in [Ctxs -> Call] /\ scratch' \in [Ctxs -> [ScratchWords -> Cell]]
    BY <1>0 DEF TypeOK
  <2>2. word' \in [Ctxs -> [Words -> Values]] /\ faults' \in Nat
    BY <1>0 DEF TypeOK
  <2> QED BY <1>0, <2>1, <2>2 DEF TypeOK
<1>2. call'[c] = k /\ scratch'[c] = s /\ word'[c] = w /\ before'[c] = before[c]
  BY <1>0 DEF TypeOK
<1>3. \A d \in Ctxs \ {c} : /\ call'[d] = call[d] /\ scratch'[d] = scratch[d]
                            /\ word'[d] = word[d] /\ before'[d] = before[d]
  BY <1>0 DEF TypeOK
<1> QED BY <1>1, <1>2, <1>3, Others DEF Fits

(* A command that fails, with the scratch area and the words it leaves.    *)
LEMMA FailStep ==
  ASSUME IInv, NEW c \in Ctxs, call[c].step # "idle", Fail(c),
         NEW s \in [ScratchWords -> Cell], scratch' = [scratch EXCEPT ![c] = s],
         NEW w \in [Words -> Values], word' = [word EXCEPT ![c] = w],
         w \in {before[c], Written(call[c], before[c])},
         hung' \in [Ctxs -> BOOLEAN],
         UNCHANGED <<current_payload, arch, before, calls>>
  PROVE  IInv'
<1> DEFINE k == [call[c] EXCEPT !.step = "idle", !.result = "FEL"]
<1>0. TypeOK /\ Fits(c)
  BY DEF IInv
<1>1. call' = [call EXCEPT ![c] = k] /\ faults' = faults + 1
  BY <1>0 DEF Fail, TypeOK, Call
<1>2. k \in Call
  BY <1>0 DEF TypeOK, Call, Steps, Results
<1>3. CallInv(k, s, w, before[c])
  BY <1>0, FailFits
<1> HIDE DEF k
<1> QED BY <1>1, <1>2, <1>3, CallStep

(* A command that succeeds and lets the call go on.                        *)
LEMMA ContinueStep ==
  ASSUME IInv, NEW c \in Ctxs, NEW step \in Steps \ {"idle"}, Continue(c, step),
         call[c].step # "idle",
         NEW s \in [ScratchWords -> Cell], scratch' = [scratch EXCEPT ![c] = s],
         UNCHANGED <<current_payload, arch, before, calls, word, hung>>,
         step \in {"params", "exec"} => CodeThere(call[c], s),
         step = "exec" => AddrThere(call[c], s) /\ ValueThere(call[c], s),
         step = "fetch" => /\ call[c].op = "readl"
                           /\ s[FetchAt(call[c])] = Data(word[c][call[c].addr])
  PROVE  IInv'
<1> DEFINE k == [call[c] EXCEPT !.step = step]
           w == word[c]
<1>0. TypeOK /\ Fits(c)
  BY DEF IInv
<1>1. call' = [call EXCEPT ![c] = k] /\ UNCHANGED faults
  BY DEF Continue
<1>2. k \in Call /\ w \in [Words -> Values]
  BY <1>0 DEF TypeOK, Call
<1>3. /\ k.step = step /\ k.op = call[c].op /\ k.arch = call[c].arch /\ k.addr = call[c].addr
      /\ k.val = call[c].val
  BY <1>0 DEF TypeOK, Call
<1>4. word' = [word EXCEPT ![c] = w] /\ hung' \in [Ctxs -> BOOLEAN]
  BY <1>0 DEF TypeOK
<1>5. CallInv(k, s, w, before[c])
  <2> HIDE DEF k
  <2>1. Asks(k)
    BY <1>0, <1>3 DEF Fits, CallInv, Asks
  <2>2. Prepared(k, s)
    BY <1>3 DEF Prepared, CodeThere, AddrThere, ValueThere, ParamsAt
  <2>3. WordsInv(k, w, before[c])
    <3>1. w = before[c]
      BY <1>0 DEF Fits, CallInv, WordsInv
    <3> QED BY <1>3, <3>1 DEF WordsInv, Succeeded
  <2>4. ValueInv(k, s, w)
    BY <1>3 DEF ValueInv, Succeeded, FetchAt, ParamsAt
  <2> QED BY <2>1, <2>2, <2>3, <2>4 DEF CallInv
<1> HIDE DEF k, w
<1> QED BY <1>1, <1>2, <1>4, <1>5, CallStep

LEMMA WriteCodeFits ==
  ASSUME IInv, NEW c \in Ctxs, WriteCode(c)
  PROVE  IInv'
<1> DEFINE k == call[c]
           n == PayloadWords(k.arch, k.op)
           Stored(upto) == [i \in ScratchWords |->
                              IF i \in 0..(n - 1) /\ i < upto THEN Code(k.arch, k.op, i)
                                                              ELSE scratch[c][i]]
<1>0. TypeOK /\ Fits(c) /\ k.step = "code" /\ n \in 11..12
  BY Sizes DEF IInv, WriteCode
<1>1. ASSUME NEW upto PROVE Stored(upto) \in [ScratchWords -> Cell]
  <2>1. k.arch \in Archs /\ k.op \in Ops /\ scratch[c] \in [ScratchWords -> Cell]
    BY <1>0, CtxTypes
  <2> QED BY <2>1, Cells
<1>2. UNCHANGED <<current_payload, arch, word, hung, before, calls>>
  BY DEF WriteCode
<1>3. CASE scratch' = [scratch EXCEPT ![c] = Stored(n)] /\ Continue(c, "params")
  <2>1. CodeThere(k, Stored(n))
    BY <1>0 DEF CodeThere, ScratchWords
  <2>2. "params" \in Steps \ {"idle"} /\ "params" # "exec" /\ "params" # "fetch"
    BY DEF Steps
  <2>3. Stored(n) \in [ScratchWords -> Cell] /\ k.step # "idle"
    BY <1>0, <1>1
  <2>4. UNCHANGED <<current_payload, arch, before, calls, word, hung>>
    BY <1>2
  <2> HIDE DEF Stored
  <2> QED BY <1>3, <2>1, <2>2, <2>3, <2>4, ContinueStep
<1>4. ASSUME NEW upto, scratch' = [scratch EXCEPT ![c] = Stored(upto)], Fail(c)
      PROVE  IInv'
  <2>1. word[c] = before[c] /\ word[c] \in [Words -> Values]
    BY <1>0, CtxTypes DEF Fits, CallInv, WordsInv
  <2>2. word' = [word EXCEPT ![c] = word[c]] /\ hung' \in [Ctxs -> BOOLEAN]
    BY <1>0, <1>2 DEF TypeOK
  <2> HIDE DEF Stored
  <2> QED BY <1>0, <1>1, <1>2, <1>4, <2>1, <2>2, FailStep
<1>5. (n - 1) + 1 = n
  BY <1>0
<1> QED BY <1>3, <1>4, <1>5 DEF WriteCode, StoreAll, StorePart

(* A call that returns with success.                                       *)
LEMMA ReturnStep ==
  ASSUME IInv, NEW c \in Ctxs, NEW val \in Values, Return(c, val), call[c].step # "idle",
         NEW w \in [Words -> Values], word' = [word EXCEPT ![c] = w],
         UNCHANGED <<current_payload, arch, scratch, before, calls, hung>>,
         w = Written(call[c], before[c]),
         IF call[c].op = "writel" THEN val = call[c].val ELSE val = w[call[c].addr]
  PROVE  IInv'
<1> DEFINE k == [call[c] EXCEPT !.step = "idle", !.result = "SUCCESS", !.val = val]
           s == scratch[c]
<1>0. TypeOK /\ Fits(c)
  BY DEF IInv
<1>1. call' = [call EXCEPT ![c] = k] /\ UNCHANGED faults
  BY DEF Return
<1>2. k \in Call /\ s \in [ScratchWords -> Cell]
  <2>1. "idle" \in Steps /\ "SUCCESS" \in Results /\ call[c] \in Call
    BY <1>0 DEF TypeOK, Steps, Results
  <2> QED BY <1>0, <2>1 DEF TypeOK, Call
<1>3. /\ k.step = "idle" /\ k.op = call[c].op /\ k.addr = call[c].addr /\ k.val = val
      /\ k.op \in Ops
  BY <1>0 DEF TypeOK, Call
<1>4. scratch' = [scratch EXCEPT ![c] = s] /\ hung' \in [Ctxs -> BOOLEAN]
  BY <1>0 DEF TypeOK
<1>5. CallInv(k, s, w, before[c])
  <2> HIDE DEF k
  <2>1. Written(k, before[c]) = Written(call[c], before[c])
    BY <1>3 DEF Written
  <2> QED BY <1>3, <2>1 DEF CallInv, Asks, Prepared, WordsInv, ValueInv, Ops
<1> HIDE DEF k, s
<1> QED BY <1>1, <1>2, <1>4, <1>5, CallStep

LEMMA WriteParamsFits ==
  ASSUME IInv, NEW c \in Ctxs, WriteParams(c)
  PROVE  IInv'
<1> DEFINE k == call[c]
           n == PayloadWords(k.arch, k.op)
           last == IF k.op = "readl" THEN n ELSE n + 1
           Stored(upto) == [i \in ScratchWords |->
                              IF i \in n..last /\ i < upto
                              THEN IF i = n THEN Data(k.addr) ELSE Data(k.val)
                              ELSE scratch[c][i]]
<1>0. /\ TypeOK /\ Fits(c) /\ k.step = "params" /\ n \in 11..12 /\ last \in n..(n + 1)
      /\ k.op = "writel" => last = n + 1
  BY Sizes DEF IInv, WriteParams
<1>1. ASSUME NEW upto PROVE Stored(upto) \in [ScratchWords -> Cell]
  <2>1. /\ k.addr \in Words \cup {NULL} /\ k.val \in Values \cup {NULL}
        /\ scratch[c] \in [ScratchWords -> Cell]
    BY <1>0, CtxTypes
  <2> QED BY <2>1, Cells
<1>2. UNCHANGED <<current_payload, arch, word, hung, before, calls>>
  BY DEF WriteParams
<1>3. CASE scratch' = [scratch EXCEPT ![c] = Stored(last + 1)] /\ Continue(c, "exec")
  <2>1. CodeThere(k, Stored(last + 1))
    <3>1. CodeThere(k, scratch[c])
      BY <1>0 DEF Fits, CallInv, Prepared
    <3> QED BY <1>0, <3>1 DEF CodeThere, ScratchWords
  <2>2. AddrThere(k, Stored(last + 1)) /\ ValueThere(k, Stored(last + 1))
    BY <1>0 DEF AddrThere, ValueThere, ParamsAt, ScratchWords
  <2>3. "exec" \in Steps \ {"idle"} /\ "exec" # "fetch"
    BY DEF Steps
  <2>4. Stored(last + 1) \in [ScratchWords -> Cell] /\ k.step # "idle"
    BY <1>0, <1>1
  <2>5. UNCHANGED <<current_payload, arch, before, calls, word, hung>>
    BY <1>2
  <2> HIDE DEF Stored
  <2> QED BY <1>3, <2>1, <2>2, <2>3, <2>4, <2>5, ContinueStep
<1>4. ASSUME NEW upto, scratch' = [scratch EXCEPT ![c] = Stored(upto)], Fail(c)
      PROVE  IInv'
  <2>1. word[c] = before[c] /\ word[c] \in [Words -> Values]
    BY <1>0, CtxTypes DEF Fits, CallInv, WordsInv
  <2>2. word' = [word EXCEPT ![c] = word[c]] /\ hung' \in [Ctxs -> BOOLEAN]
    BY <1>0, <1>2 DEF TypeOK
  <2> HIDE DEF Stored
  <2> QED BY <1>0, <1>1, <1>2, <1>4, <2>1, <2>2, FailStep
<1> QED BY <1>3, <1>4 DEF WriteParams, StoreAll, StorePart, ParamsAt

(***************************************************************************)
(* The device runs what the host prepared: the program of the call, with   *)
(* the parameters of the call.                                             *)
(***************************************************************************)
LEMMA RunsOwn ==
  ASSUME IInv, NEW c \in Ctxs, call[c].step = "exec", NEW op \in Ops, Runs(c, op)
  PROVE  /\ op = call[c].op /\ arch[c] = call[c].arch
         /\ LoadedAddr(c, op) = call[c].addr
         /\ op = "writel" => LoadedValue(c, op) = call[c].val
         /\ AddrWord(arch[c], op) = ParamsAt(call[c])
         /\ ValueWord(arch[c], op) = FetchAt(call[c])
<1> DEFINE k == call[c]
<1>0. TypeOK /\ Prepared(k, scratch[c]) /\ Asks(k) /\ k.op \in Ops
  BY CtxTypes DEF IInv, Fits, CallInv
<1>1. op = k.op /\ arch[c] = k.arch
  <2>1. 0 \in 0..(PayloadWords(arch[c], op) - 1) /\ 0 \in 0..(PayloadWords(k.arch, k.op) - 1)
    BY Sizes
  <2>2. Code(arch[c], op, 0) = Code(k.arch, k.op, 0)
    BY <1>0, <2>1 DEF Runs, Prepared, CodeThere
  <2> QED BY <2>2 DEF Code
<1>2. AddrWord(arch[c], op) = ParamsAt(k) /\ ValueWord(arch[c], op) = FetchAt(k)
  BY <1>0, <1>1, Places DEF Asks, ParamsAt, FetchAt
<1>3. AddrThere(k, scratch[c]) /\ ValueThere(k, scratch[c])
  BY <1>0 DEF Prepared
<1> QED BY <1>1, <1>2, <1>3 DEF LoadedAddr, LoadedValue, AddrThere, ValueThere, FetchAt, Data

LEMMA ExecuteFits ==
  ASSUME IInv, NEW c \in Ctxs, Execute(c)
  PROVE  IInv'
<1> DEFINE k == call[c]
<1>0. /\ TypeOK /\ Fits(c) /\ k.step = "exec" /\ Asks(k) /\ Prepared(k, scratch[c])
      /\ word[c] = before[c] /\ word[c] \in [Words -> Values]
      /\ scratch[c] \in [ScratchWords -> Cell] /\ k.op \in Ops
  BY CtxTypes DEF IInv, Execute, Fits, CallInv, WordsInv
<1>1. UNCHANGED <<current_payload, arch, before, calls>>
  BY DEF Execute
<1> DEFINE Read == [scratch[c] EXCEPT ![FetchAt(k)] = Data(word[c][k.addr])]
           wrote == [word[c] EXCEPT ![k.addr] = k.val]
<1>2. CASE RunsRead(c)
  <2>1. k.op = "readl" /\ UNCHANGED <<word, hung>>
    BY <1>0, <1>2, RunsOwn DEF RunsRead, Ops
  <2>2. k.addr \in Words
    BY <1>0 DEF Asks
  <2>3. scratch' = [scratch EXCEPT ![c] = Read]
    <3>1. scratch' = [scratch EXCEPT ![c][FetchAt(k)] = Data(word[c][k.addr])]
      BY <1>0, <1>2, RunsOwn DEF RunsRead, Ops
    <3> QED BY <3>1
  <2>4. FetchAt(k) \in ScratchWords
    BY Sizes DEF FetchAt, ParamsAt, ScratchWords
  <2>5. Read \in [ScratchWords -> Cell]
    BY <1>0, <2>2, <2>4, Cells
  <2>6. Read[FetchAt(k)] = Data(word[c][k.addr])
    BY <1>0, <2>4
  <2>7. CASE Continue(c, "fetch")
    <3>1. "fetch" \in Steps \ {"idle"} /\ "fetch" # "exec" /\ "fetch" # "params"
      BY DEF Steps
    <3> HIDE DEF Read
    <3> QED BY <1>0, <1>1, <2>1, <2>3, <2>5, <2>6, <2>7, <3>1, ContinueStep
  <2>8. CASE Fail(c)
    <3>1. word' = [word EXCEPT ![c] = word[c]] /\ hung' \in [Ctxs -> BOOLEAN]
      BY <1>0, <2>1 DEF TypeOK
    <3> HIDE DEF Read
    <3> QED BY <1>0, <1>1, <2>3, <2>5, <2>8, <3>1, FailStep
  <2>9. Continue(c, "fetch") \/ Fail(c)
    <3>1. ~ (RunsAnything(c) /\ UNCHANGED <<call, faults>>)
      <4>1. Runs(c, "readl") /\ LoadedAddr(c, "readl") \in Words /\ "readl" \in Ops
        BY <1>2 DEF RunsRead, Ops
      <4> QED BY <4>1 DEF RunsAnything
    <3> QED BY <2>1, <3>1 DEF Execute
  <2> QED BY <2>7, <2>8, <2>9
<1>3. CASE RunsWrite(c)
  <2>1. k.op = "writel" /\ UNCHANGED <<scratch, hung>>
    BY <1>0, <1>3, RunsOwn DEF RunsWrite, Ops
  <2>2. k.addr \in Words /\ k.val \in Values
    BY <1>0, <2>1 DEF Asks
  <2>3. word' = [word EXCEPT ![c] = wrote]
    <3>1. word' = [word EXCEPT ![c][k.addr] = k.val]
      BY <1>0, <1>3, RunsOwn DEF RunsWrite, Ops
    <3> QED BY <3>1
  <2>4. wrote \in [Words -> Values] /\ wrote = Written(k, before[c])
    BY <1>0, <2>1, <2>2 DEF Written
  <2>5. scratch' = [scratch EXCEPT ![c] = scratch[c]] /\ hung' \in [Ctxs -> BOOLEAN]
    BY <1>0, <2>1 DEF TypeOK
  <2>6. CASE Return(c, k.val)
    <3> HIDE DEF wrote
    <3> QED BY <1>0, <1>1, <2>1, <2>2, <2>3, <2>4, <2>6, ReturnStep
  <2>7. CASE Fail(c)
    <3> HIDE DEF wrote
    <3> QED BY <1>0, <1>1, <2>3, <2>4, <2>5, <2>7, FailStep
  <2>8. Return(c, k.val) \/ Fail(c)
    <3>1. ~ (RunsAnything(c) /\ UNCHANGED <<call, faults>>)
      <4>1. Runs(c, "writel") /\ LoadedAddr(c, "writel") \in Words
            /\ LoadedValue(c, "writel") \in Values /\ "writel" \in Ops
        BY <1>3 DEF RunsWrite, Ops
      <4> QED BY <4>1 DEF RunsAnything
    <3> QED BY <2>1, <3>1 DEF Execute
  <2> QED BY <2>6, <2>7, <2>8
<1>4. CASE NothingRuns /\ Fail(c)
  <2>1. /\ word' = [word EXCEPT ![c] = word[c]] /\ hung' \in [Ctxs -> BOOLEAN]
        /\ scratch' = [scratch EXCEPT ![c] = scratch[c]]
    BY <1>0, <1>4 DEF TypeOK, NothingRuns
  <2> QED BY <1>0, <1>1, <1>4, <2>1, FailStep
<1>5. CASE RunsAnything(c) /\ UNCHANGED <<call, faults>>
  <2>1. /\ word' = [word EXCEPT ![c] = word[c]] /\ hung' \in [Ctxs -> BOOLEAN]
        /\ scratch' = [scratch EXCEPT ![c] = scratch[c]]
        /\ call' = [call EXCEPT ![c] = k] /\ k \in Call
    BY <1>0, <1>5 DEF TypeOK, RunsAnything
  <2>2. CallInv(k, scratch[c], word[c], before[c]) /\ UNCHANGED faults
    BY <1>0, <1>5 DEF Fits
  <2> HIDE DEF k
  <2> QED BY <1>0, <1>1, <2>1, <2>2, CallStep
<1> QED BY <1>2, <1>3, <1>4, <1>5 DEF Execute

LEMMA FetchFits ==
  ASSUME IInv, NEW c \in Ctxs, Fetch(c)
  PROVE  IInv'
<1> DEFINE k == call[c]
           val == scratch[c][FetchAt(k)].data
<1>0. /\ TypeOK /\ Fits(c) /\ k.step = "fetch" /\ Asks(k)
      /\ word[c] = before[c] /\ word[c] \in [Words -> Values]
      /\ scratch[c] \in [ScratchWords -> Cell]
      /\ k.op = "readl" /\ scratch[c][FetchAt(k)] = Data(word[c][k.addr])
  BY CtxTypes DEF IInv, Fetch, Fits, CallInv, WordsInv, ValueInv
<1>1. UNCHANGED <<current_payload, arch, scratch, word, hung, before, calls>>
  BY DEF Fetch
<1>2. val = word[c][k.addr] /\ val \in Values
  <2>1. k.addr \in Words
    BY <1>0 DEF Asks
  <2> QED BY <1>0, <2>1 DEF Data
<1>3. /\ word' = [word EXCEPT ![c] = word[c]] /\ hung' \in [Ctxs -> BOOLEAN]
      /\ scratch' = [scratch EXCEPT ![c] = scratch[c]]
  BY <1>0, <1>1 DEF TypeOK
<1>4. CASE Return(c, val)
  <2>1. word[c] = Written(k, before[c])
    BY <1>0 DEF Written
  <2> HIDE DEF val
  <2> QED BY <1>0, <1>1, <1>2, <1>3, <1>4, <2>1, ReturnStep
<1>5. CASE Fail(c)
  BY <1>0, <1>1, <1>3, <1>5, FailStep
<1> QED BY <1>4, <1>5 DEF Fetch

LEMMA NoAnswerFits ==
  ASSUME IInv, NEW c \in Ctxs, NoAnswer(c)
  PROVE  IInv'
<1> DEFINE k == [call[c] EXCEPT !.step = "idle", !.result = "FEL"]
<1>0. /\ TypeOK /\ Fits(c) /\ call[c].step # "idle"
      /\ word[c] = before[c] /\ word[c] \in [Words -> Values]
      /\ scratch[c] \in [ScratchWords -> Cell]
  BY CtxTypes DEF IInv, NoAnswer, Fits, CallInv, WordsInv
<1>1. UNCHANGED <<current_payload, arch, scratch, word, hung, before, calls, faults>>
  BY DEF NoAnswer
<1>2. /\ word' = [word EXCEPT ![c] = word[c]] /\ hung' \in [Ctxs -> BOOLEAN]
      /\ scratch' = [scratch EXCEPT ![c] = scratch[c]]
  BY <1>0, <1>1 DEF TypeOK
<1>3. call' = [call EXCEPT ![c] = k]
  BY <1>0 DEF NoAnswer, TypeOK
<1>4. k \in Call
  <2>1. "idle" \in Steps /\ "FEL" \in Results /\ call[c] \in Call
    BY <1>0 DEF TypeOK, Steps, Results
  <2> QED BY <2>1 DEF Call
<1>5. CallInv(k, scratch[c], word[c], before[c])
  BY <1>0, FailFits
<1> HIDE DEF k
<1> QED BY <1>0, <1>1, <1>2, <1>3, <1>4, <1>5, CallStep

LEMMA IInvNext == IInv /\ [Next]_vars => IInv'
<1> SUFFICES ASSUME IInv, [Next]_vars PROVE IInv'
  OBVIOUS
<1>1. CASE PayloadsInit
  <2>1. TypeOK'
    BY <1>1, PayloadsAssumption DEF PayloadsInit, IInv, TypeOK
  <2> QED BY <1>1, <2>1 DEF PayloadsInit, IInv, Fits
<1>2. CASE UNCHANGED vars
  BY <1>2 DEF vars, IInv, TypeOK, Fits
<1>3. ASSUME NEW c \in Ctxs,
             \/ Start(c) \/ WriteCode(c) \/ WriteParams(c) \/ Execute(c)
             \/ Fetch(c) \/ NoAnswer(c)
      PROVE  IInv'
  BY <1>3, StartFits, WriteCodeFits, WriteParamsFits, ExecuteFits, FetchFits, NoAnswerFits
<1> QED BY <1>1, <1>2, <1>3 DEF Next

LEMMA Invariance == Spec => []IInv
  BY InitFits, IInvNext, PTL DEF Spec

----------------------------------------------------------------------------
(* The types of contexts and devices. *)
THEOREM TypeCorrect == Spec => []TypeOK
<1>1. IInv => TypeOK
  BY DEF IInv
<1> QED BY <1>1, Invariance, PTL

(* A successful readl returns the word it was asked for, for any number of *)
(* contexts, calls and failed commands before it.                          *)
THEOREM ReadsTrue == Spec => []ReadlTrue
<1>1. IInv => ReadlTrue
  BY DEF IInv, Fits, CallInv, ValueInv, ReadlTrue, Done, Succeeded
<1> QED BY <1>1, Invariance, PTL

(* Words change as their writel says, and by nothing else.                 *)
THEOREM WordsStayExact == Spec => []WordsExact
<1>1. IInv => WordsExact
  BY DEF IInv, Fits, CallInv, WordsInv, WordsExact, Done, Succeeded, Written
<1> QED BY <1>1, Invariance, PTL

(* A device that hangs was sent a program of another architecture.         *)
THEOREM OnlyForeignHangs == Spec => HangsOnForeignOnly
<1>1. IInv /\ [Next]_vars =>
        [\A c \in Ctxs : hung'[c] /\ ~hung[c] => call[c].arch # arch[c]]_vars
  <2> SUFFICES ASSUME IInv, Next, NEW c \in Ctxs, hung'[c], ~hung[c], call[c].arch = arch[c]
               PROVE  FALSE
    OBVIOUS
  <2>1. Execute(c) /\ RunsAnything(c)
    BY DEF Next, PayloadsInit, Start, WriteCode, WriteParams, Execute, Fetch, NoAnswer,
           RunsRead, RunsWrite, NothingRuns, RunsAnything, IInv, TypeOK
  <2> DEFINE k == call[c]
  <2>2. /\ k.step = "exec" /\ Asks(k) /\ Prepared(k, scratch[c]) /\ k.op \in Ops
    BY <2>1, CtxTypes DEF Execute, IInv, Fits, CallInv
  <2>3. Runs(c, k.op)
    BY <2>2 DEF Prepared, CodeThere, Runs
  <2>4. LoadedAddr(c, k.op) \in Words /\ (k.op = "writel" => LoadedValue(c, k.op) \in Values)
    BY <2>2, <2>3, RunsOwn DEF Asks
  <2> QED BY <2>1, <2>2, <2>3, <2>4 DEF RunsAnything
<1> QED BY <1>1, Invariance, PTL DEF Spec, HangsOnForeignOnly
=============================================================================
