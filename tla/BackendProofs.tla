---------------------------- MODULE BackendProofs ----------------------------
(***************************************************************************)
(* Proofs about MCBackends: the native backends, the guest memories, and   *)
(* the WebAssembly and JavaScript backends, for programs and operand       *)
(* stacks of any length, for any values, addresses, pages and memories.    *)
(***************************************************************************)
EXTENDS MCBackends, SequenceLemmas

Regs == {"acc", "arg0", "arg1", "fp", "lr"}

\* What a register or a word of the host's stack may hold.
HostWord == Word \cup Int

Machines ==
  [reg    : [Regs -> HostWord],
   stk    : Seq(HostWord),
   mem    : Memories \cup {Clobbered},
   status : {"run", "jump", "tail", "trap", "done"},
   at     : HostWord \cup Helpers \cup {Nowhere}]

\* What lies below the operands: the frame record, and the return address.
Header ==
  CASE X86 -> <<ReturnAddress, CallerFp>>
    [] backend.arch = "aarch64" -> <<ReturnAddress, CallerFp>>
    [] backend.arch = "riscv64" -> <<CallerFp, ReturnAddress>>

\* A machine inside the code of a function.
Inside(s) ==
  /\ s \in Machines
  /\ s.mem \in Memories
  /\ s.status = "run"
  /\ Len(s.stk) >= Base
  /\ \A i \in 1..Base : s.stk[i] = Header[i]
  /\ Above(s.stk, Base) \in Seq(Word)
  /\ s.reg["fp"] = IF Frame THEN Base ELSE CallerFp

\* The frame below the operands stays as the prologue made it, until control
\* leaves the code.
NativeInv ==
  /\ backend \in Backends
  /\ ops \in 0..MaxOps
  /\ m \in Machines
  /\ m.mem \in Memories
  /\ m.status = "run" => Inside(m)

-----------------------------------------------------------------------------
(***************************************************************************)
(* Instructions                                                            *)
(***************************************************************************)
\* Setting a register.
LEMMA SetMachine ==
  ASSUME NEW s \in Machines, NEW r \in Regs, NEW v \in HostWord
  PROVE  /\ Set(s, r, v) \in Machines
         /\ Set(s, r, v).reg = [s.reg EXCEPT ![r] = v]
         /\ Set(s, r, v).stk = s.stk
         /\ Set(s, r, v).mem = s.mem
         /\ Set(s, r, v).status = s.status
         /\ Set(s, r, v).at = s.at
  BY DEF Set, Machines

\* Pushing a register.
LEMMA PushMachine ==
  ASSUME NEW s \in Machines, NEW r \in Regs
  PROVE  /\ PushReg(s, r) \in Machines
         /\ PushReg(s, r).reg = s.reg
         /\ PushReg(s, r).stk = Append(s.stk, s.reg[r])
         /\ PushReg(s, r).mem = s.mem
         /\ PushReg(s, r).status = s.status
         /\ PushReg(s, r).at = s.at
<1>1. s.stk \in Seq(HostWord) /\ s.reg[r] \in HostWord
  BY DEF Machines
<1>2. Append(s.stk, s.reg[r]) \in Seq(HostWord)
  BY <1>1
<1> QED
  BY <1>2 DEF PushReg, Machines

\* Popping into a register.
LEMMA PopMachine ==
  ASSUME NEW s \in Machines, NEW r \in Regs, s.stk # <<>>
  PROVE  /\ PopReg(s, r) \in Machines
         /\ PopReg(s, r).reg = [s.reg EXCEPT ![r] = Last(s.stk)]
         /\ PopReg(s, r).stk = Front(s.stk)
         /\ PopReg(s, r).mem = s.mem
         /\ PopReg(s, r).status = s.status
         /\ PopReg(s, r).at = s.at
<1>1. s.stk \in Seq(HostWord)
  BY DEF Machines
<1>2. Front(s.stk) \in Seq(HostWord) /\ Last(s.stk) \in HostWord
  BY <1>1, FrontElements
<1> QED
  BY <1>2 DEF PopReg, Machines

\* A call keeps the frame pointer and the stack.
LEMMA CallMachine ==
  ASSUME NEW s \in Machines
  PROVE  /\ AfterCall(s) \in Machines
         /\ AfterCall(s).reg["fp"] = s.reg["fp"]
         /\ AfterCall(s).stk = s.stk
         /\ AfterCall(s).mem = s.mem
         /\ AfterCall(s).status = s.status
         /\ AfterCall(s).at = s.at
  BY DEF AfterCall, Machines, Regs, HostWord, Clobbered, InsideCode

-----------------------------------------------------------------------------
(***************************************************************************)
(* What keeps a machine inside the code                                    *)
(***************************************************************************)
\* The frame takes at most two words.
LEMMA BaseType == backend \in Backends => Base \in 0..2
  BY BackendAssumption DEF Base, X86, Frame

\* With one more operand.
LEMMA RunningPushed ==
  ASSUME backend \in Backends,
         NEW s, Inside(s), NEW t \in Machines, NEW v \in Word,
         t.stk = Append(s.stk, v), t.mem \in Memories, t.status = "run",
         t.reg["fp"] = s.reg["fp"]
  PROVE  Inside(t) /\ Above(t.stk, Base) = Append(Above(s.stk, Base), v)
<1>1. s.stk \in Seq(HostWord) /\ v \in HostWord
  BY DEF Inside, Machines, HostWord
<1>2. Base \in 0..Len(s.stk) /\ Base \in Nat
  BY <1>1, BaseType DEF Inside
<1>3. Above(t.stk, Base) = Append(Above(s.stk, Base), v)
  BY <1>1, <1>2, AboveAppend
<1>4. Above(t.stk, Base) \in Seq(Word)
  BY <1>3 DEF Inside
<1>5. Len(t.stk) >= Base /\ \A i \in 1..Base : t.stk[i] = s.stk[i]
  BY <1>1, <1>2
<1> QED
  BY <1>3, <1>4, <1>5 DEF Inside

\* With one operand less.
LEMMA RunningPopped ==
  ASSUME backend \in Backends,
         NEW s, Inside(s), NEW t \in Machines, Len(s.stk) > Base,
         t.stk = Front(s.stk), t.mem \in Memories, t.status = "run",
         t.reg["fp"] = s.reg["fp"]
  PROVE  /\ Inside(t)
         /\ Above(t.stk, Base) = Front(Above(s.stk, Base))
         /\ Above(s.stk, Base) # <<>>
         /\ Last(s.stk) = Last(Above(s.stk, Base))
         /\ Last(s.stk) \in Word
<1>1. s.stk \in Seq(HostWord) /\ Above(s.stk, Base) \in Seq(Word)
  BY DEF Inside, Machines
<1>2. Base \in 0..(Len(s.stk) - 1) /\ Base \in Nat /\ s.stk # <<>>
  BY <1>1, BaseType
<1>3. /\ Above(t.stk, Base) = Front(Above(s.stk, Base))
      /\ Above(s.stk, Base) # <<>>
      /\ Last(s.stk) = Last(Above(s.stk, Base))
  BY <1>1, <1>2, AboveFront
<1>4. Front(Above(s.stk, Base)) \in Seq(Word) /\ Last(Above(s.stk, Base)) \in Word
  BY <1>1, <1>3, FrontElements
<1>5. /\ Len(t.stk) = Len(s.stk) - 1
      /\ \A i \in 1..(Len(s.stk) - 1) : t.stk[i] = s.stk[i]
  BY <1>1, <1>2, FrontElements
<1>6. Len(t.stk) >= Base /\ \A i \in 1..Base : t.stk[i] = s.stk[i]
  BY <1>1, <1>2, <1>5
<1> QED
  BY <1>3, <1>4, <1>6 DEF Inside

-----------------------------------------------------------------------------
(***************************************************************************)
(* What the code of each operation does to a machine inside the code       *)
(***************************************************************************)
\* Both push codes push the word that they put into the accumulator.
LEMMA PushWord ==
  ASSUME backend \in Backends, NEW s, Inside(s), NEW v \in Word
  PROVE  LET t == PushReg(Set(s, "acc", v), "acc")
         IN  /\ Inside(t)
             /\ Above(t.stk, Base) = Append(Above(s.stk, Base), v)
             /\ t.mem = s.mem
<1> DEFINE u == Set(s, "acc", v)
           t == PushReg(u, "acc")
<1>1. s \in Machines /\ "acc" \in Regs /\ v \in HostWord
  BY DEF Inside, Regs, HostWord
<1>2. u \in Machines /\ u.reg = [s.reg EXCEPT !["acc"] = v] /\ u.stk = s.stk
      /\ u.mem = s.mem /\ u.status = s.status
  BY <1>1, SetMachine
<1>3. s.reg \in [Regs -> HostWord]
  BY <1>1 DEF Machines
<1>4. u.reg["acc"] = v /\ u.reg["fp"] = s.reg["fp"]
  BY <1>2, <1>3 DEF Regs
<1> HIDE DEF u
<1>5. t \in Machines /\ t.reg = u.reg /\ t.stk = Append(u.stk, u.reg["acc"])
      /\ t.mem = u.mem /\ t.status = u.status
  BY <1>1, <1>2, PushMachine
<1> HIDE DEF t
<1>6. /\ t.stk = Append(s.stk, v) /\ t.mem \in Memories /\ t.status = "run"
      /\ t.reg["fp"] = s.reg["fp"]
  BY <1>2, <1>4, <1>5 DEF Inside
<1>7. Inside(t) /\ Above(t.stk, Base) = Append(Above(s.stk, Base), v)
  BY <1>5, <1>6, RunningPushed
<1> QED
  BY <1>2, <1>5, <1>7 DEF t, u

\* Popping an operand into a register other than the frame pointer.
LEMMA PopOperand ==
  ASSUME backend \in Backends, NEW s, Inside(s), Len(s.stk) > Base,
         NEW r \in {"acc", "arg0", "arg1"}
  PROVE  LET t == PopReg(s, r)
         IN  /\ Inside(t)
             /\ Above(t.stk, Base) = Front(Above(s.stk, Base))
             /\ Above(s.stk, Base) # <<>>
             /\ t.reg[r] = Last(Above(s.stk, Base))
             /\ t.reg[r] \in Word
             /\ \A q \in Regs \ {r} : t.reg[q] = s.reg[q]
             /\ t.mem = s.mem
             /\ Len(t.stk) = Len(s.stk) - 1
<1> DEFINE t == PopReg(s, r)
<1>1. s \in Machines /\ r \in Regs /\ s.stk \in Seq(HostWord) /\ s.reg \in [Regs -> HostWord]
  BY DEF Inside, Regs, Machines
<1>2. s.stk # <<>>
  BY <1>1, BaseType
<1>3. t \in Machines /\ t.reg = [s.reg EXCEPT ![r] = Last(s.stk)] /\ t.stk = Front(s.stk)
      /\ t.mem = s.mem /\ t.status = s.status
  BY <1>1, <1>2, PopMachine
<1>4. t.reg[r] = Last(s.stk) /\ \A q \in Regs \ {r} : t.reg[q] = s.reg[q]
  BY <1>1, <1>3
<1> HIDE DEF t
<1>5. t.mem \in Memories /\ t.status = "run" /\ t.reg["fp"] = s.reg["fp"]
  BY <1>3, <1>4 DEF Inside, Regs
<1>6. /\ Inside(t)
      /\ Above(t.stk, Base) = Front(Above(s.stk, Base))
      /\ Above(s.stk, Base) # <<>>
      /\ Last(s.stk) = Last(Above(s.stk, Base))
      /\ Last(s.stk) \in Word
  BY <1>3, <1>5, RunningPopped
<1>7. Len(t.stk) = Len(s.stk) - 1
  BY <1>1, <1>2, <1>3, FrontElements
<1> QED
  BY <1>3, <1>4, <1>6, <1>7 DEF t

\* The helper of a width accesses that width, and extends as it is asked to.
LEMMA HelperAccess ==
  ASSUME NEW w \in {1, 2, 4, 8}, NEW signed \in BOOLEAN
  PROVE  /\ HelperWidth[load_helper(w, signed)] = w
         /\ load_helper(w, signed) \in HelperSigned <=> (signed /\ w # 8)
         /\ HelperWidth[store_helper(w)] = w
  BY DEF HelperWidth, HelperSigned, load_helper, store_helper

\* A load replaces the address by what is there.
LEMMA LoadCode ==
  ASSUME backend \in Backends, NEW s, Inside(s), Len(s.stk) > Base,
         Last(Above(s.stk, Base)) \in Addresses,
         NEW w \in Widths, NEW signed \in BOOLEAN
  PROVE  LET t == CodeLoad(s, w, signed)
             operands == Above(s.stk, Base)
         IN  /\ Inside(t)
             /\ Above(t.stk, Base) =
                  Append(Front(operands), Read(s.mem, Last(operands), w, signed))
             /\ t.mem = s.mem
<1> DEFINE p == PopReg(s, Arg0)
           h == load_helper(w, signed)
           v == Read(p.mem, p.reg[Arg0], HelperWidth[h], h \in HelperSigned)
           c == AfterCall(p)
           a == Last(Above(s.stk, Base))
<1>1. Arg0 \in {"acc", "arg0", "arg1"} /\ w \in {1, 2, 4, 8} /\ s.mem \in Memories
  BY WidthAssumption DEF Arg0, Inside
<1>2. /\ Inside(p)
      /\ Above(p.stk, Base) = Front(Above(s.stk, Base))
      /\ p.reg[Arg0] = a
      /\ p.mem = s.mem
  BY <1>1, PopOperand
<1>3. v = Read(s.mem, a, w, signed)
  <2>1. HelperWidth[h] = w /\ (h \in HelperSigned <=> (signed /\ w # 8))
    BY <1>1, HelperAccess
  <2>2. (h \in HelperSigned) = (signed /\ w # 8)
    <3> HIDE DEF h
    <3> QED
      BY <2>1
  <2>3. v = Read(s.mem, a, w, signed /\ w # 8)
    BY <1>2, <2>1, <2>2, Zenon
  <2>4. CASE w = 8
    <3>1. (signed /\ w # 8) = FALSE
      BY <2>4
    <3>2. v = Read(s.mem, a, 8, FALSE)
      BY <2>3, <2>4, <3>1, Zenon
    <3>3. signed = TRUE \/ signed = FALSE
      OBVIOUS
    <3>4. Read(s.mem, a, 8, TRUE) = Read(s.mem, a, 8, FALSE)
      BY <1>1, MemoryAssumption
    <3> QED
      BY <2>4, <3>2, <3>3, <3>4, Zenon
  <2>5. CASE w # 8
    <3>1. (signed /\ w # 8) = signed
      BY <2>5
    <3> QED
      BY <2>3, <3>1, Zenon
  <2> QED
    BY <2>4, <2>5
<1>4. Read(s.mem, a, w, signed) \in Word
  BY <1>1, MemoryAssumption
<1>5. /\ c \in Machines
      /\ c.reg["fp"] = p.reg["fp"]
      /\ c.stk = p.stk
      /\ c.mem = p.mem
      /\ c.status = p.status
  BY <1>2, CallMachine DEF Inside
<1>6. Inside(c)
  BY <1>2, <1>5 DEF Inside
<1>7. CodeLoad(s, w, signed) = PushReg(Set(c, "acc", v), "acc")
  BY DEF CodeLoad, CallLoad
<1> HIDE DEF c, v, p, a
<1>8. LET t == PushReg(Set(c, "acc", v), "acc")
      IN  /\ Inside(t)
          /\ Above(t.stk, Base) = Append(Above(c.stk, Base), v)
          /\ t.mem = c.mem
  BY <1>3, <1>4, <1>6, PushWord
<1> QED
  BY <1>2, <1>3, <1>5, <1>7, <1>8 DEF a

\* A store writes the operand below the address to it.
LEMMA StoreCode ==
  ASSUME backend \in Backends, NEW s, Inside(s), Len(s.stk) >= Base + 2,
         Last(Above(s.stk, Base)) \in Addresses, NEW w \in Widths
  PROVE  LET t == CodeStore(s, w)
             operands == Above(s.stk, Base)
             n == Len(operands)
         IN  /\ Inside(t)
             /\ n >= 2
             /\ Above(t.stk, Base) = SubSeq(operands, 1, n - 2)
             /\ t.mem = Write(s.mem, Last(operands), w, operands[n - 1])
<1> DEFINE x == Above(s.stk, Base)
           p == PopReg(s, Arg0)
           q == PopReg(p, "arg1")
           c == AfterCall(q)
           t == [c EXCEPT !.mem = Write(@, q.reg[Arg0], w, q.reg["arg1"])]
<1>1. /\ Arg0 \in {"acc", "arg0", "arg1"} /\ Arg0 \in Regs \ {"arg1"}
      /\ w \in {1, 2, 4, 8} /\ s.mem \in Memories
  BY WidthAssumption DEF Arg0, Inside, Regs
<1>2. Len(s.stk) \in Nat /\ Base \in Nat
  BY BaseType DEF Inside, Machines
<1>3. x \in Seq(Word) /\ Len(x) = Len(s.stk) - Base
  <2>1. s.stk \in Seq(HostWord) /\ Base \in 0..Len(s.stk)
    BY <1>2 DEF Inside, Machines
  <2> QED
    BY <2>1, AboveElements DEF Inside
<1>4. Len(x) >= 2 /\ x \in Seq(Word)
  BY <1>2, <1>3
<1>5. /\ Inside(p)
      /\ Above(p.stk, Base) = Front(x)
      /\ p.reg[Arg0] = Last(x)
      /\ p.reg[Arg0] \in Word
      /\ p.mem = s.mem
      /\ Len(p.stk) = Len(s.stk) - 1
  BY <1>1, <1>2, PopOperand
<1>6. Len(p.stk) > Base
  BY <1>2, <1>5
<1> HIDE DEF p, x
<1>7. /\ Inside(q)
      /\ Above(q.stk, Base) = Front(Front(x))
      /\ q.reg["arg1"] = Last(Front(x))
      /\ q.reg["arg1"] \in Word
      /\ q.reg[Arg0] = Last(x)
      /\ q.mem = s.mem
  BY <1>1, <1>5, <1>6, PopOperand
<1>8. Front(Front(x)) = SubSeq(x, 1, Len(x) - 2) /\ Last(Front(x)) = x[Len(x) - 1]
  BY <1>4, FrontOfFront
<1>9. /\ c \in Machines
      /\ c.reg["fp"] = q.reg["fp"]
      /\ c.stk = q.stk
      /\ c.mem = q.mem
      /\ c.status = q.status
  BY <1>7, CallMachine DEF Inside
<1>10. CodeStore(s, w) = t
  BY <1>1, HelperAccess DEF CodeStore, CallStore, c, q, p
<1> HIDE DEF c, q
<1>11. Write(s.mem, Last(x), w, q.reg["arg1"]) \in Memories
  BY <1>1, <1>7, MemoryAssumption DEF x
<1>12. /\ t \in Machines
       /\ t.mem = Write(s.mem, Last(x), w, x[Len(x) - 1])
       /\ t.mem \in Memories
       /\ t.reg = c.reg /\ t.stk = c.stk /\ t.status = c.status
  BY <1>7, <1>8, <1>9, <1>11 DEF Machines
<1> HIDE DEF t
<1>13. Inside(t) /\ Above(t.stk, Base) = Above(q.stk, Base)
  BY <1>7, <1>9, <1>12 DEF Inside
<1> QED
  BY <1>4, <1>7, <1>8, <1>10, <1>12, <1>13 DEF x

-----------------------------------------------------------------------------
(***************************************************************************)
(* Prologue and epilogue                                                   *)
(***************************************************************************)
\* The prologue leaves the frame below an empty operand stack.
LEMMA PrologueCode ==
  ASSUME backend \in Backends, NEW mem \in Memories
  PROVE  LET t == [emit_prologue(Entry(backend)) EXCEPT !.mem = mem]
         IN  Inside(t) /\ Above(t.stk, Base) = <<>> /\ t.mem = mem /\ t.at = Nowhere
<1> DEFINE e == Entry(backend)
           t == [emit_prologue(e) EXCEPT !.mem = mem]
<1>1. /\ e \in Machines
      /\ e.reg["fp"] = CallerFp
      /\ e.reg["lr"] = IF X86 THEN Clobbered ELSE ReturnAddress
      /\ e.stk = IF X86 THEN <<ReturnAddress>> ELSE <<>>
      /\ e.mem = Clobbered /\ e.status = "run" /\ e.at = Nowhere
  <2>1. {CallerFp, ReturnAddress, Clobbered} \subseteq HostWord
    BY DEF HostWord, CallerFp, ReturnAddress, Clobbered
  <2>2. /\ e.reg \in [Regs -> HostWord]
        /\ e.reg["fp"] = CallerFp
        /\ e.reg["lr"] = IF X86 THEN Clobbered ELSE ReturnAddress
    BY <2>1 DEF Entry, Regs, X86
  <2>3. /\ e.stk = IF X86 THEN <<ReturnAddress>> ELSE <<>>
        /\ e.mem = Clobbered /\ e.status = "run" /\ e.at = Nowhere
    BY DEF Entry, X86
  <2>4. e.stk \in Seq(HostWord)
    BY <2>1, <2>3
  <2>5. e = [reg |-> e.reg, stk |-> e.stk, mem |-> e.mem, status |-> e.status, at |-> e.at]
    BY DEF Entry
  <2> HIDE DEF e
  <2>6. e \in Machines
    BY <2>2, <2>3, <2>4, <2>5 DEF Machines
  <2> QED
    BY <2>2, <2>3, <2>6
<1>0. "fp" \in Regs /\ "lr" \in Regs
  BY DEF Regs
<1> HIDE DEF e
<1>2. CASE ~Frame
  <2>1. t = [e EXCEPT !.mem = mem]
    BY <1>2 DEF emit_prologue
  <2>2. /\ t \in Machines /\ t.mem = mem /\ t.reg = e.reg /\ t.stk = e.stk
        /\ t.status = e.status /\ t.at = e.at
    BY <2>1, <1>1 DEF Machines
  <2> HIDE DEF t
  <2>3. Base = IF X86 THEN 1 ELSE 0
    BY <1>2 DEF Base
  <2>4. X86 => Header = <<ReturnAddress, CallerFp>>
    BY DEF Header, X86
  <2>5. Len(t.stk) = Base /\ \A i \in 1..Base : t.stk[i] = Header[i]
    BY <1>1, <2>2, <2>3, <2>4
  <2>6. Above(t.stk, Base) = <<>>
    BY <2>3, <2>5, SubSeqEmpty DEF Above
  <2>7. Above(t.stk, Base) \in Seq(Word)
    BY <2>6, EmptySeq
  <2>8. Inside(t)
    BY <1>1, <1>2, <2>2, <2>5, <2>7 DEF Inside
  <2> QED
    BY <1>1, <2>2, <2>6, <2>8 DEF t, e
<1>3. CASE Frame
  <2> DEFINE saved == CASE X86 -> PushReg(e, "fp")
                        [] backend.arch = "aarch64" -> PushReg(PushReg(e, "lr"), "fp")
                        [] backend.arch = "riscv64" -> PushReg(PushReg(e, "fp"), "lr")
             r == Set(saved, "fp", Len(saved.stk))
  <2>1. t = [r EXCEPT !.mem = mem]
    BY <1>3 DEF emit_prologue
  <2>2. /\ X86 => saved = PushReg(e, "fp")
        /\ backend.arch = "aarch64" => saved = PushReg(PushReg(e, "lr"), "fp")
        /\ backend.arch = "riscv64" => saved = PushReg(PushReg(e, "fp"), "lr")
    BY DEF X86
  <2> HIDE DEF saved
  <2>3. /\ saved \in Machines /\ saved.stk = Header /\ saved.reg = e.reg
        /\ saved.mem = e.mem /\ saved.status = e.status /\ saved.at = e.at
    <3>1. CASE X86
      <4>1. saved = PushReg(e, "fp") /\ Header = <<ReturnAddress, CallerFp>>
        BY <2>2, <3>1 DEF Header, X86
      <4>2. /\ saved \in Machines /\ saved.stk = Append(e.stk, e.reg["fp"])
            /\ saved.reg = e.reg
            /\ saved.mem = e.mem /\ saved.status = e.status /\ saved.at = e.at
        BY <4>1, <1>0, <1>1, PushMachine
      <4>3. Append(<<ReturnAddress>>, CallerFp) = <<ReturnAddress, CallerFp>>
        BY AppendToOne
      <4> QED
        BY <1>1, <3>1, <4>1, <4>2, <4>3
    <3>2. CASE backend.arch = "aarch64"
      <4> DEFINE p == PushReg(e, "lr")
      <4>1. ~X86 /\ saved = PushReg(p, "fp") /\ Header = <<ReturnAddress, CallerFp>>
        BY <2>2, <3>2 DEF Header, X86
      <4>2. /\ p \in Machines /\ p.stk = Append(e.stk, e.reg["lr"]) /\ p.reg = e.reg
            /\ p.mem = e.mem /\ p.status = e.status /\ p.at = e.at
        BY <1>0, <1>1, PushMachine
      <4>3. p.stk = <<ReturnAddress>>
        BY <1>1, <4>1, <4>2
      <4> HIDE DEF p
      <4>4. /\ saved \in Machines /\ saved.stk = Append(p.stk, p.reg["fp"])
            /\ saved.reg = p.reg
            /\ saved.mem = p.mem /\ saved.status = p.status /\ saved.at = p.at
        BY <1>0, <4>1, <4>2, PushMachine
      <4>5. Append(<<ReturnAddress>>, CallerFp) = <<ReturnAddress, CallerFp>>
        BY AppendToOne
      <4> QED
        BY <1>1, <4>1, <4>2, <4>3, <4>4, <4>5
    <3>3. CASE backend.arch = "riscv64"
      <4> DEFINE p == PushReg(e, "fp")
      <4>1. ~X86 /\ saved = PushReg(p, "lr") /\ Header = <<CallerFp, ReturnAddress>>
        BY <2>2, <3>3 DEF Header, X86
      <4>2. /\ p \in Machines /\ p.stk = Append(e.stk, e.reg["fp"]) /\ p.reg = e.reg
            /\ p.mem = e.mem /\ p.status = e.status /\ p.at = e.at
        BY <1>0, <1>1, PushMachine
      <4>3. p.stk = <<CallerFp>>
        BY <1>1, <4>1, <4>2
      <4> HIDE DEF p
      <4>4. /\ saved \in Machines /\ saved.stk = Append(p.stk, p.reg["lr"])
            /\ saved.reg = p.reg
            /\ saved.mem = p.mem /\ saved.status = p.status /\ saved.at = p.at
        BY <1>0, <4>1, <4>2, PushMachine
      <4>5. Append(<<CallerFp>>, ReturnAddress) = <<CallerFp, ReturnAddress>>
        BY AppendToOne
      <4> QED
        BY <1>1, <4>1, <4>2, <4>3, <4>4, <4>5
    <3> QED
      BY <3>1, <3>2, <3>3, BackendAssumption DEF X86
  <2>4. Len(Header) = 2 /\ Base = 2
    BY <1>3, BackendAssumption DEF Header, Base, X86
  <2>5. /\ r \in Machines /\ r.stk = Header /\ r.reg["fp"] = 2
        /\ r.mem = e.mem /\ r.status = e.status /\ r.at = e.at
    <3>1. Len(saved.stk) = 2
      BY <2>3, <2>4
    <3>2. 2 \in HostWord
      BY DEF HostWord
    <3>3. saved.reg \in [Regs -> HostWord]
      BY <2>3 DEF Machines
    <3>4. r = Set(saved, "fp", 2)
      BY <3>1
    <3>5. /\ r \in Machines /\ r.reg = [saved.reg EXCEPT !["fp"] = 2]
          /\ r.stk = saved.stk /\ r.mem = saved.mem /\ r.status = saved.status
          /\ r.at = saved.at
      BY <1>0, <2>3, <3>2, <3>4, SetMachine
    <3> QED
      BY <1>0, <2>3, <3>3, <3>5
  <2> HIDE DEF r
  <2>6. /\ t \in Machines /\ t.stk = Header /\ t.reg["fp"] = 2 /\ t.mem = mem
        /\ t.status = "run" /\ t.at = Nowhere
    BY <1>1, <2>1, <2>5 DEF Machines
  <2> HIDE DEF t
  <2>7. Above(t.stk, Base) = <<>>
    <3>1. Len(t.stk) = 2
      BY <2>4, <2>6
    <3> QED
      BY <2>4, <3>1, SubSeqEmpty DEF Above
  <2>8. Above(t.stk, Base) \in Seq(Word)
    BY <2>7, EmptySeq
  <2>9. Len(t.stk) >= Base
    <3>1. Len(t.stk) = 2
      BY <2>4, <2>6, Zenon
    <3> QED
      BY <2>4, <3>1
  <2>10. Inside(t)
    BY <1>3, <2>4, <2>6, <2>8, <2>9 DEF Inside
  <2> QED
    BY <2>6, <2>7, <2>10 DEF t, e
<1> QED
  BY <1>2, <1>3 DEF e

\* A machine below whose operands the frame record is.
LEMMA FramedStack ==
  ASSUME backend \in Backends, NEW s, Inside(s), Frame
  PROVE  /\ s \in Machines /\ s.stk \in Seq(HostWord) /\ s.reg \in [Regs -> HostWord]
         /\ Len(s.stk) \in Nat /\ Len(s.stk) >= 2 /\ Base = 2
         /\ s.reg["fp"] = 2
         /\ s.stk[1] = Header[1] /\ s.stk[2] = Header[2]
<1>1. s \in Machines /\ s.stk \in Seq(HostWord) /\ s.reg \in [Regs -> HostWord]
  BY DEF Inside, Machines
<1>2. Base = 2
  BY DEF Base
<1>3. 1 \in 1..Base /\ 2 \in 1..Base
  BY <1>2
<1> QED
  BY <1>1, <1>2, <1>3 DEF Inside

\* Popping the two words of a frame record into two registers.
LEMMA PopRecord ==
  ASSUME NEW s \in Machines, NEW q \in Regs, NEW r \in Regs, q # r,
         NEW a, NEW b, s.stk = <<a, b>>
  PROVE  LET t == PopReg(PopReg(s, q), r)
         IN  /\ t \in Machines
             /\ t.reg[q] = b /\ t.reg[r] = a
             /\ t.stk = <<>>
             /\ t.mem = s.mem /\ t.status = s.status
<1> DEFINE u == PopReg(s, q)
           t == PopReg(u, r)
<1>1. s.stk # <<>> /\ Last(s.stk) = b /\ Front(s.stk) = <<a>>
  <2>1. s.stk \in Seq(HostWord) /\ Len(s.stk) = 2
    BY DEF Machines
  <2>2. /\ Front(s.stk) \in Seq(HostWord) /\ Len(Front(s.stk)) = 1
        /\ \A i \in 1..1 : Front(s.stk)[i] = s.stk[i]
    <3>1. s.stk # <<>> /\ Len(s.stk) - 1 = 1
      BY <2>1
    <3>2. /\ Front(s.stk) \in Seq(HostWord) /\ Len(Front(s.stk)) = Len(s.stk) - 1
          /\ \A i \in 1..(Len(s.stk) - 1) : Front(s.stk)[i] = s.stk[i]
      BY <2>1, <3>1, FrontElements
    <3> QED
      BY <3>1, <3>2
  <2>3. Front(s.stk)[1] = a
    BY <2>2
  <2>4. a \in HostWord
    BY <2>1, ElementOfSeq
  <2>5. <<a>> \in Seq(HostWord) /\ Len(<<a>>) = 1 /\ <<a>>[1] = a
    BY <2>4
  <2>6. Front(s.stk) = <<a>>
    BY <2>2, <2>3, <2>5, SeqEqual
  <2> QED
    BY <2>1, <2>6 DEF Last
<1>2. /\ u \in Machines /\ u.reg = [s.reg EXCEPT ![q] = b] /\ u.stk = <<a>>
      /\ u.mem = s.mem /\ u.status = s.status
  BY <1>1, PopMachine
<1> HIDE DEF u
<1>3. Last(u.stk) = a /\ Front(u.stk) = <<>> /\ u.stk # <<>>
  BY <1>2, SubSeqEmpty DEF Last, Front
<1>4. /\ t \in Machines /\ t.reg = [u.reg EXCEPT ![r] = a] /\ t.stk = <<>>
      /\ t.mem = u.mem /\ t.status = u.status
  BY <1>2, <1>3, PopMachine
<1> HIDE DEF t
<1>5. s.reg \in [Regs -> HostWord]
  BY DEF Machines
<1>6. t.reg[q] = b /\ t.reg[r] = a
  BY <1>2, <1>4, <1>5
<1> QED
  BY <1>2, <1>4, <1>6 DEF t, u

\* The frame record of the two machines that keep their stack pointer in it.
LEMMA RealignCode ==
  ASSUME backend \in Backends, NEW s, Inside(s), Frame
  PROVE  /\ Realign(s) \in Machines
         /\ Realign(s).stk = <<Header[1], Header[2]>>
         /\ Realign(s).mem = s.mem /\ Realign(s).status = s.status
<1>1. /\ s \in Machines /\ s.stk \in Seq(HostWord) /\ s.reg \in [Regs -> HostWord]
      /\ Len(s.stk) \in Nat /\ Len(s.stk) >= 2
      /\ s.reg["fp"] = 2
      /\ s.stk[1] = Header[1] /\ s.stk[2] = Header[2]
  BY FramedStack
<1>2. \A i \in 1..2 : s.stk[i] \in HostWord
  BY <1>1
<1>3. /\ SubSeq(s.stk, 1, 2) \in Seq(HostWord)
      /\ Len(SubSeq(s.stk, 1, 2)) = 2
      /\ \A i \in 1..2 : SubSeq(s.stk, 1, 2)[i] = s.stk[i]
  <2>1. /\ SubSeq(s.stk, 1, 2) \in Seq(HostWord)
        /\ Len(SubSeq(s.stk, 1, 2)) = IF 1 <= 2 THEN 2 - 1 + 1 ELSE 0
        /\ \A i \in 1..(2 - 1 + 1) : SubSeq(s.stk, 1, 2)[i] = s.stk[1 + i - 1]
    BY <1>2, SubSeqProperties
  <2> QED
    BY <2>1
<1>4. /\ <<Header[1], Header[2]>> \in Seq(HostWord)
      /\ Len(<<Header[1], Header[2]>>) = 2
  <2>1. Header[1] \in HostWord /\ Header[2] \in HostWord
    BY <1>1, <1>2
  <2> QED
    BY <2>1
<1>5. \A i \in 1..2 : SubSeq(s.stk, 1, 2)[i] = <<Header[1], Header[2]>>[i]
  <2>1. SubSeq(s.stk, 1, 2)[1] = Header[1] /\ SubSeq(s.stk, 1, 2)[2] = Header[2]
    <3>1. 1 \in 1..2 /\ 2 \in 1..2
      OBVIOUS
    <3> QED
      BY <1>1, <1>3, <3>1, Zenon
  <2>2. <<Header[1], Header[2]>>[1] = Header[1] /\ <<Header[1], Header[2]>>[2] = Header[2]
    OBVIOUS
  <2>3. \A i \in 1..2 : i = 1 \/ i = 2
    OBVIOUS
  <2> QED
    BY <2>1, <2>2, <2>3, Zenon
<1>6. SubSeq(s.stk, 1, 2) = <<Header[1], Header[2]>>
  BY <1>3, <1>4, <1>5, SeqEqual
<1> QED
  BY <1>1, <1>4, <1>6 DEF Realign, Machines

\* The epilogue returns to the caller: on x86-64 from an empty operand
\* stack, on the others from any.
LEMMA EpilogueReturns ==
  ASSUME backend \in Backends, NEW s, Inside(s), Frame,
         X86 => Len(s.stk) = Base
  PROVE  LET t == emit_epilogue(s)
         IN  t.at = ReturnAddress /\ t.reg["fp"] = CallerFp /\ t.stk = <<>>
<1>1. CASE X86
  <2> DEFINE u == PopReg(s, "fp")
  <2>1. /\ s \in Machines /\ s.stk \in Seq(HostWord) /\ s.reg \in [Regs -> HostWord]
        /\ Len(s.stk) = 2 /\ s.stk # <<>> /\ "fp" \in Regs
        /\ s.stk[1] = Header[1] /\ s.stk[2] = Header[2]
    <3>1. /\ s \in Machines /\ s.stk \in Seq(HostWord) /\ s.reg \in [Regs -> HostWord]
          /\ Base = 2
          /\ s.stk[1] = Header[1] /\ s.stk[2] = Header[2]
      BY FramedStack
    <3>2. Len(s.stk) = 2 /\ "fp" \in Regs
      BY <1>1, <3>1 DEF Regs
    <3>3. s.stk # <<>>
      BY <3>1, <3>2
    <3> QED
      BY <3>1, <3>2, <3>3
  <2>2. Header[1] = ReturnAddress /\ Header[2] = CallerFp
    BY <1>1 DEF Header, X86
  <2>3. u \in Machines /\ u.stk = Front(s.stk) /\ u.reg = [s.reg EXCEPT !["fp"] = Last(s.stk)]
    BY <2>1, PopMachine
  <2>4. u.reg["fp"] = CallerFp
    BY <2>1, <2>2, <2>3 DEF Last
  <2>5. Len(u.stk) = 1 /\ u.stk[1] = ReturnAddress
    <3>1. /\ Len(Front(s.stk)) = Len(s.stk) - 1
          /\ \A i \in 1..(Len(s.stk) - 1) : Front(s.stk)[i] = s.stk[i]
      BY <2>1, FrontElements
    <3>2. 1 \in 1..(Len(s.stk) - 1)
      BY <2>1
    <3> QED
      BY <2>1, <2>2, <2>3, <3>1, <3>2
  <2> HIDE DEF u
  <2>6. Last(u.stk) = ReturnAddress /\ Front(u.stk) = <<>>
    BY <2>5, SubSeqEmpty DEF Last, Front
  <2>7. emit_epilogue(s) = [u EXCEPT !.at = Last(u.stk), !.stk = Front(u.stk)]
    BY <1>1 DEF emit_epilogue, Return, X86, u
  <2> QED
    BY <2>3, <2>4, <2>6, <2>7 DEF Machines
<1>2. CASE backend.arch = "aarch64"
  <2> DEFINE r == Realign(s)
             t == PopReg(PopReg(r, "fp"), "lr")
  <2>1. Header[1] = ReturnAddress /\ Header[2] = CallerFp
    BY <1>2 DEF Header, X86
  <2>2. r \in Machines /\ r.stk = <<Header[1], Header[2]>>
    BY RealignCode
  <2> HIDE DEF r
  <2>3. /\ t \in Machines /\ t.reg["fp"] = Header[2] /\ t.reg["lr"] = Header[1]
        /\ t.stk = <<>>
    BY <2>2, PopRecord DEF Regs
  <2>4. emit_epilogue(s) = [t EXCEPT !.at = t.reg["lr"]]
    BY <1>2 DEF emit_epilogue, Return, X86, r
  <2> HIDE DEF t
  <2> QED
    BY <2>1, <2>3, <2>4 DEF Machines
<1>3. CASE backend.arch = "riscv64"
  <2> DEFINE r == Realign(s)
             t == PopReg(PopReg(r, "lr"), "fp")
  <2>1. Header[1] = CallerFp /\ Header[2] = ReturnAddress
    BY <1>3 DEF Header, X86
  <2>2. r \in Machines /\ r.stk = <<Header[1], Header[2]>>
    BY RealignCode
  <2> HIDE DEF r
  <2>3. /\ t \in Machines /\ t.reg["lr"] = Header[2] /\ t.reg["fp"] = Header[1]
        /\ t.stk = <<>>
    BY <2>2, PopRecord DEF Regs
  <2>4. emit_epilogue(s) = [t EXCEPT !.at = t.reg["lr"]]
    BY <1>3 DEF emit_epilogue, Return, X86, r
  <2> HIDE DEF t
  <2> QED
    BY <2>1, <2>3, <2>4 DEF Machines
<1> QED
  BY <1>1, <1>2, <1>3, BackendAssumption DEF X86

\* Whatever is on the stack, the epilogue keeps the memory.
LEMMA EpilogueMachine ==
  ASSUME backend \in Backends, NEW s, Inside(s)
  PROVE  emit_epilogue(s) \in Machines /\ emit_epilogue(s).mem = s.mem
<1> DEFINE t == emit_epilogue(s)
<1>0. s \in Machines /\ s.stk \in Seq(HostWord) /\ "fp" \in Regs /\ "lr" \in Regs
  BY DEF Inside, Machines, Regs
<1>1. CASE ~Frame
  BY <1>0, <1>1 DEF emit_epilogue
<1>2. CASE Frame /\ X86
  <2> DEFINE u == PopReg(s, "fp")
  <2>1. s.stk # <<>> /\ Len(s.stk) >= 2 /\ Len(s.stk) \in Nat
    BY <1>2, FramedStack
  <2>2. u \in Machines /\ u.stk = Front(s.stk) /\ u.mem = s.mem
    BY <1>0, <2>1, PopMachine
  <2>3. u.stk \in Seq(HostWord) /\ u.stk # <<>>
    <3>1. Front(s.stk) \in Seq(HostWord) /\ Len(Front(s.stk)) = Len(s.stk) - 1
      BY <1>0, <2>1, FrontElements
    <3> QED
      BY <2>1, <2>2, <3>1
  <2>4. Last(u.stk) \in HostWord /\ Front(u.stk) \in Seq(HostWord)
    BY <2>3, FrontElements
  <2>5. t = [u EXCEPT !.at = Last(u.stk), !.stk = Front(u.stk)]
    BY <1>2 DEF emit_epilogue, Return, X86
  <2> HIDE DEF u
  <2> QED
    BY <2>2, <2>4, <2>5 DEF Machines
<1>3. CASE Frame /\ backend.arch \in {"aarch64", "riscv64"}
  <2>1. PICK q \in {"fp", "lr"}, r \in {"fp", "lr"} :
          q # r /\ t = Return(PopReg(PopReg(Realign(s), q), r))
    BY <1>3 DEF emit_epilogue, X86
  <2> DEFINE u == PopReg(PopReg(Realign(s), q), r)
  <2>2. /\ Realign(s) \in Machines /\ Realign(s).stk = <<Header[1], Header[2]>>
        /\ Realign(s).mem = s.mem
    BY <1>3, RealignCode
  <2>3. u \in Machines /\ u.mem = s.mem
    BY <1>0, <2>1, <2>2, PopRecord
  <2>4. u.reg["lr"] \in HostWord
    BY <1>0, <2>3 DEF Machines
  <2>5. t = [u EXCEPT !.at = u.reg["lr"]]
    BY <1>3, <2>1 DEF Return, X86
  <2> HIDE DEF u
  <2> QED
    BY <2>3, <2>4, <2>5 DEF Machines
<1> QED
  BY <1>1, <1>2, <1>3, BackendAssumption DEF X86

-----------------------------------------------------------------------------
(***************************************************************************)
(* The invariant                                                           *)
(***************************************************************************)
\* The prologue establishes it.
LEMMA InitNativeInv == Init => NativeInv
<1> SUFFICES ASSUME Init
             PROVE  NativeInv
  OBVIOUS
<1>1. backend \in Backends /\ ops \in 0..MaxOps
  BY BoundAssumption DEF Init
<1>2. PICK mem \in StartMemories : m = [emit_prologue(Entry(backend)) EXCEPT !.mem = mem]
  BY DEF Init
<1>3. Inside(m)
  BY <1>1, <1>2, PrologueCode, MemoryAssumption
<1> QED
  BY <1>1, <1>3 DEF NativeInv, Inside

\* The operands of a machine inside the code.
LEMMA RunningOperands ==
  ASSUME NativeInv, m.status = "run"
  PROVE  /\ Inside(m) /\ m \in Machines /\ m.mem \in Memories
         /\ Operands = Above(m.stk, Base)
         /\ Operands \in Seq(Word)
         /\ Len(Operands) = Depth
         /\ Depth \in Nat /\ Len(m.stk) = Base + Depth
<1>1. Inside(m) /\ m \in Machines /\ m.mem \in Memories
  BY DEF NativeInv
<1>2. Operands = Above(m.stk, Base)
  BY DEF Operands, Above
<1>3. m.stk \in Seq(HostWord) /\ Len(m.stk) \in Nat /\ Base \in Nat
  BY <1>1, BaseType DEF NativeInv, Machines
<1>4. Base \in 0..Len(m.stk)
  BY <1>1, <1>3 DEF Inside
<1>5. Len(Above(m.stk, Base)) = Len(m.stk) - Base
  BY <1>3, <1>4, AboveElements
<1>6. Depth \in Nat /\ Len(m.stk) = Base + Depth
  BY <1>3, <1>4 DEF Depth
<1> QED
  BY <1>1, <1>2, <1>5, <1>6 DEF Inside, Depth

\* What a step inside the code does to the machine and its operands.
Continues(code, operands) ==
  /\ Inside(code)
  /\ Above(code.stk, Base) = operands

\* The code of an operation is emitted inside the code, and keeps the backend.
LEMMA EmitStep ==
  ASSUME NativeInv, NEW op, NEW code, Emit(op, code)
  PROVE  /\ m.status = "run" /\ ops' \in 0..MaxOps /\ backend' = backend
         /\ last' = op /\ m' = code
  BY BoundAssumption DEF NativeInv, Emit

\* The scalar is pushed.
LEMMA PushU64Step ==
  ASSUME NativeInv, NEW v \in U64s, PushU64(v)
  PROVE  Continues(m', Append(Operands, v)) /\ m'.mem = m.mem
<1>1. m.status = "run" /\ m' = CodePushU64(m, v)
  BY EmitStep DEF PushU64
<1>2. Inside(m) /\ Operands = Above(m.stk, Base) /\ v \in Word /\ backend \in Backends
  BY <1>1, RunningOperands, ScalarAssumption DEF NativeInv
<1> QED
  BY <1>1, <1>2, PushWord DEF CodePushU64, Continues

\* The scalar is pushed, sign-extended on two of the machines.
LEMMA PushU32Step ==
  ASSUME NativeInv, NEW v \in U32s, PushU32(v)
  PROVE  /\ Continues(m', Append(Operands, IF X86 THEN v ELSE SignExtend(v)))
         /\ m'.mem = m.mem
<1> DEFINE x == IF X86 THEN v ELSE SignExtend(v)
<1>0. CodePushU32(m, v) = PushReg(Set(m, "acc", x), "acc")
  BY DEF CodePushU32
<1>1. m.status = "run" /\ m' = PushReg(Set(m, "acc", x), "acc")
  BY <1>0, EmitStep DEF PushU32
<1>2. Inside(m) /\ Operands = Above(m.stk, Base) /\ backend \in Backends
  BY <1>1, RunningOperands DEF NativeInv
<1>3. x \in Word
  BY ScalarAssumption, HalfAssumption
<1> HIDE DEF x
<1>4. Continues(m', Append(Operands, x)) /\ m'.mem = m.mem
  BY <1>1, <1>2, <1>3, PushWord DEF Continues
<1> QED
  BY <1>4 DEF x

\* The operand on top is dropped.
LEMMA PopStep ==
  ASSUME NativeInv, Pop
  PROVE  /\ Operands # <<>>
         /\ Continues(m', Front(Operands)) /\ m'.mem = m.mem
<1>1. m.status = "run" /\ m' = PopReg(m, "acc") /\ Depth >= 1
  BY EmitStep DEF Pop, CodePop
<1>2. /\ Inside(m) /\ Operands = Above(m.stk, Base) /\ backend \in Backends
      /\ Depth \in Nat /\ Len(m.stk) = Base + Depth /\ Base \in Nat
  BY <1>1, RunningOperands, BaseType DEF NativeInv
<1>3. Len(m.stk) > Base
  BY <1>1, <1>2
<1> QED
  BY <1>1, <1>2, <1>3, PopOperand DEF Continues

\* The address on top is replaced by what is there.
LEMMA LoadStep ==
  ASSUME NativeInv, NEW w \in Widths, NEW signed \in BOOLEAN, Load(w, signed)
  PROVE  /\ Operands # <<>> /\ Last(Operands) \in Addresses
         /\ Continues(m', Append(Front(Operands), Read(m.mem, Last(Operands), w, signed)))
         /\ m'.mem = m.mem
<1>1. /\ m.status = "run" /\ m' = CodeLoad(m, w, signed) /\ Depth >= 1
      /\ Last(Operands) \in Addresses
  BY EmitStep DEF Load
<1>2. /\ Inside(m) /\ Operands = Above(m.stk, Base) /\ backend \in Backends
      /\ Depth \in Nat /\ Len(m.stk) = Base + Depth /\ Base \in Nat
      /\ Len(Operands) = Depth /\ Operands \in Seq(Word)
  BY <1>1, RunningOperands, BaseType DEF NativeInv
<1>3. Len(m.stk) > Base /\ Operands # <<>>
  BY <1>1, <1>2
<1> QED
  BY <1>1, <1>2, <1>3, LoadCode DEF Continues

\* The operand below the top is written to the address on top.
LEMMA StoreStep ==
  ASSUME NativeInv, NEW w \in Widths, Store(w)
  PROVE  /\ Len(Operands) >= 2 /\ Last(Operands) \in Addresses
         /\ Continues(m', SubSeq(Operands, 1, Len(Operands) - 2))
         /\ m'.mem = Write(m.mem, Last(Operands), w, Operands[Len(Operands) - 1])
<1>1. /\ m.status = "run" /\ m' = CodeStore(m, w) /\ Depth >= 2
      /\ Last(Operands) \in Addresses
  BY EmitStep DEF Store
<1>2. /\ Inside(m) /\ Operands = Above(m.stk, Base) /\ backend \in Backends
      /\ Depth \in Nat /\ Len(m.stk) = Base + Depth /\ Base \in Nat
  BY <1>1, RunningOperands, BaseType DEF NativeInv
<1>3. Len(m.stk) >= Base + 2
  BY <1>1, <1>2
<1> QED
  BY <1>1, <1>2, <1>3, StoreCode DEF Continues

\* The call of the helper leaves operands and memory alone.
LEMMA EcallStep ==
  ASSUME NativeInv, Ecall
  PROVE  Continues(m', Operands) /\ m'.mem = m.mem
<1>1. m.status = "run" /\ m' = AfterCall(m)
  BY EmitStep DEF Ecall, CodeEcall
<1>2. Inside(m) /\ Operands = Above(m.stk, Base) /\ m \in Machines
  BY <1>1, RunningOperands
<1>3. /\ m' \in Machines /\ m'.reg["fp"] = m.reg["fp"] /\ m'.stk = m.stk
      /\ m'.mem = m.mem /\ m'.status = m.status
  BY <1>1, <1>2, CallMachine
<1> QED
  BY <1>2, <1>3 DEF Inside, Continues

\* A jump goes where the operand on top says.
LEMMA JumpStep ==
  ASSUME NativeInv, NEW t \in Targets, Jump(t)
  PROVE  m' \in Machines /\ m'.mem = m.mem /\ m'.status = "jump" /\ m'.at = t
<1> DEFINE p == PopReg(m, "acc")
<1>1. /\ m.status = "run" /\ Depth >= 1 /\ Last(Operands) = t
      /\ m' = [p EXCEPT !.status = "jump", !.at = p.reg["acc"]]
  BY EmitStep DEF Jump, CodeJump
<1>2. /\ Inside(m) /\ Operands = Above(m.stk, Base) /\ backend \in Backends
      /\ Depth \in Nat /\ Len(m.stk) = Base + Depth /\ Base \in Nat
  BY <1>1, RunningOperands, BaseType DEF NativeInv
<1>3. Len(m.stk) > Base
  BY <1>1, <1>2
<1>4. p \in Machines /\ p.mem = m.mem /\ p.reg["acc"] = t /\ t \in HostWord
  BY <1>1, <1>2, <1>3, PopOperand DEF Inside, HostWord
<1> HIDE DEF p
<1> QED
  BY <1>1, <1>4 DEF Machines

\* A tail call leaves stack and registers as they are.
LEMMA TailCallStep ==
  ASSUME NativeInv, NEW h \in Helpers, TailCall(h)
  PROVE  /\ m' \in Machines /\ m'.mem = m.mem /\ m'.status = "tail" /\ m'.at = h
         /\ m'.stk = m.stk /\ m'.reg = m.reg /\ m.status = "run"
         /\ TailsAreBare => X86 /\ ~Frame /\ Depth = 0
<1>1. /\ m.status = "run" /\ m' = [m EXCEPT !.status = "tail", !.at = h]
      /\ TailsAreBare => X86 /\ ~Frame /\ Depth = 0
  BY EmitStep DEF TailCall, CodeTailCall
<1> QED
  BY <1>1 DEF NativeInv, Machines

\* A trap leaves the code.
LEMMA TrapStep ==
  ASSUME NativeInv, Trap
  PROVE  m' \in Machines /\ m'.mem = m.mem /\ m'.status = "trap"
<1>1. m' = [m EXCEPT !.status = "trap"]
  BY EmitStep DEF Trap, CodeTrap
<1> QED
  BY <1>1 DEF NativeInv, Machines

\* The epilogue leaves the code: framed code for its caller, on x86-64 if it
\* leaves no operand.
LEMMA FinishStep ==
  ASSUME NativeInv, Finish
  PROVE  /\ m' \in Machines /\ m'.mem = m.mem /\ m'.status = "done"
         /\ Frame /\ (X86 => X86LeavesNothing) =>
              m'.at = ReturnAddress /\ m'.reg["fp"] = CallerFp /\ m'.stk = <<>>
<1> DEFINE t == emit_epilogue(m)
<1>1. /\ m.status = "run" /\ m' = [t EXCEPT !.status = "done"]
      /\ X86LeavesNothing /\ X86 => Depth = 0
  BY EmitStep DEF Finish, CodeFinish
<1>2. /\ Inside(m) /\ backend \in Backends
      /\ Depth \in Nat /\ Len(m.stk) = Base + Depth /\ Base \in Nat
  BY <1>1, RunningOperands, BaseType DEF NativeInv
<1>3. t \in Machines /\ t.mem = m.mem
  BY <1>2, EpilogueMachine
<1>4. /\ m' \in Machines /\ m'.mem = t.mem /\ m'.status = "done"
      /\ m'.at = t.at /\ m'.reg = t.reg /\ m'.stk = t.stk
  <2> HIDE DEF t
  <2> QED
    BY <1>1, <1>3 DEF Machines
<1>5. ASSUME Frame, X86 => X86LeavesNothing
      PROVE  t.at = ReturnAddress /\ t.reg["fp"] = CallerFp /\ t.stk = <<>>
  <2>1. X86 => Len(m.stk) = Base
    BY <1>1, <1>2, <1>5
  <2> QED
    BY <1>2, <1>5, <2>1, EpilogueReturns
<1> QED
  BY <1>3, <1>4, <1>5

\* The frame is judged by the backend, which no step changes.
LEMMA RunningStable ==
  ASSUME backend' = backend, Inside(m')
  PROVE  Inside(m)'
  BY DEF Inside, Base, Header, X86, Frame

\* Every step keeps the invariant.
LEMMA NextNativeInv == NativeInv /\ [Next]_vars => NativeInv'
<1> SUFFICES ASSUME NativeInv, [Next]_vars
             PROVE  NativeInv'
  OBVIOUS
<1>1. ASSUME NEW operands, Continues(m', operands), m'.mem \in Memories,
             backend' = backend, ops' \in 0..MaxOps
      PROVE  NativeInv'
  <2>1. Inside(m)'
    BY <1>1, RunningStable DEF Continues
  <2> QED
    BY <1>1, <2>1 DEF NativeInv, Continues, Inside
<1>2. ASSUME m' \in Machines, m'.mem = m.mem, m'.status # "run",
             backend' = backend, ops' \in 0..MaxOps
      PROVE  NativeInv'
  BY <1>2 DEF NativeInv
<1>3. m.mem \in Memories
  BY DEF NativeInv
<1>4. ASSUME NEW v \in U64s, PushU64(v) PROVE NativeInv'
  BY <1>1, <1>3, <1>4, PushU64Step, EmitStep DEF PushU64
<1>5. ASSUME NEW v \in U32s, PushU32(v) PROVE NativeInv'
  BY <1>1, <1>3, <1>5, PushU32Step, EmitStep DEF PushU32
<1>6. ASSUME Pop PROVE NativeInv'
  BY <1>1, <1>3, <1>6, PopStep, EmitStep DEF Pop
<1>7. ASSUME NEW w \in Widths, NEW signed \in BOOLEAN, Load(w, signed)
      PROVE  NativeInv'
  BY <1>1, <1>3, <1>7, LoadStep, EmitStep DEF Load
<1>8. ASSUME NEW w \in Widths, Store(w) PROVE NativeInv'
  <2>1. m.status = "run" /\ backend' = backend /\ ops' \in 0..MaxOps
    BY <1>8, EmitStep DEF Store
  <2>2. /\ Len(Operands) >= 2 /\ Last(Operands) \in Addresses
        /\ Continues(m', SubSeq(Operands, 1, Len(Operands) - 2))
        /\ m'.mem = Write(m.mem, Last(Operands), w, Operands[Len(Operands) - 1])
    BY <1>8, StoreStep
  <2>3. Operands \in Seq(Word) /\ Len(Operands) - 1 \in 1..Len(Operands)
    BY <2>1, <2>2, RunningOperands
  <2>4. Operands[Len(Operands) - 1] \in Word
    BY <2>3, ElementOfSeq
  <2>5. m'.mem \in Memories
    BY <1>3, <2>2, <2>4, MemoryAssumption
  <2> QED
    BY <1>1, <2>1, <2>2, <2>5
<1>9. ASSUME Ecall PROVE NativeInv'
  BY <1>1, <1>3, <1>9, EcallStep, EmitStep DEF Ecall
<1>10. ASSUME NEW t \in Targets, Jump(t) PROVE NativeInv'
  BY <1>2, <1>10, JumpStep, EmitStep DEF Jump
<1>11. ASSUME NEW h \in Helpers, TailCall(h) PROVE NativeInv'
  BY <1>2, <1>11, TailCallStep, EmitStep DEF TailCall
<1>12. ASSUME Trap PROVE NativeInv'
  BY <1>2, <1>12, TrapStep, EmitStep DEF Trap
<1>13. ASSUME Finish PROVE NativeInv'
  BY <1>2, <1>13, FinishStep, EmitStep DEF Finish
<1>14. CASE UNCHANGED vars
  BY <1>14, RunningStable DEF vars, NativeInv
<1> QED
  BY <1>4, <1>5, <1>6, <1>7, <1>8, <1>9, <1>10, <1>11, <1>12, <1>13, <1>14 DEF Next

\* The invariant holds in every reachable state.
LEMMA NativeInvariant == Spec => []NativeInv
  BY InitNativeInv, NextNativeInv, PTL DEF Spec

\* The invariant has the types.
LEMMA NativeTyped == NativeInv => TypeOK
<1> SUFFICES ASSUME NativeInv
             PROVE  TypeOK
  OBVIOUS
<1>1. m.status = "run" => Depth >= 0 /\ Operands \in Seq(Word)
  BY RunningOperands
<1> QED
  BY <1>1 DEF TypeOK, NativeInv, Machines

\* The operand stack of the emitted code never reaches into the frame and
\* holds values of the guest only, whatever the program.
THEOREM NativeTypeCorrect == Spec => []TypeOK
  BY NativeTyped, NativeInvariant, PTL

-----------------------------------------------------------------------------
(***************************************************************************)
(* Returning                                                               *)
(***************************************************************************)
\* A step into a state outside the code returns to the caller.
LEMMA NextReturns ==
  ASSUME X86LeavesNothing
  PROVE  NativeInv /\ ReturnsToCaller /\ [Next]_vars => ReturnsToCaller'
<1> SUFFICES ASSUME NativeInv, ReturnsToCaller, [Next]_vars
             PROVE  ReturnsToCaller'
  OBVIOUS
<1>1. ASSUME m'.status \notin {"tail", "done"}
      PROVE  ReturnsToCaller'
  BY <1>1 DEF ReturnsToCaller, TailCallReturnsToCaller
<1>2. ASSUME NEW operands, Continues(m', operands)
      PROVE  ReturnsToCaller'
  BY <1>1, <1>2 DEF Continues, Inside
<1>3. ASSUME NEW v \in U64s, PushU64(v) PROVE ReturnsToCaller'
  BY <1>2, <1>3, PushU64Step
<1>4. ASSUME NEW v \in U32s, PushU32(v) PROVE ReturnsToCaller'
  BY <1>2, <1>4, PushU32Step
<1>5. ASSUME Pop PROVE ReturnsToCaller'
  BY <1>2, <1>5, PopStep
<1>6. ASSUME NEW w \in Widths, NEW signed \in BOOLEAN, Load(w, signed)
      PROVE  ReturnsToCaller'
  BY <1>2, <1>6, LoadStep
<1>7. ASSUME NEW w \in Widths, Store(w) PROVE ReturnsToCaller'
  BY <1>2, <1>7, StoreStep
<1>8. ASSUME Ecall PROVE ReturnsToCaller'
  BY <1>2, <1>8, EcallStep
<1>9. ASSUME NEW t \in Targets, Jump(t) PROVE ReturnsToCaller'
  BY <1>1, <1>9, JumpStep
<1>10. ASSUME NEW h \in Helpers, TailCall(h) PROVE ReturnsToCaller'
  <2>1. /\ m'.status = "tail" /\ m'.stk = m.stk /\ m'.reg = m.reg /\ m.status = "run"
        /\ TailsAreBare => X86 /\ ~Frame /\ Depth = 0
    BY <1>10, TailCallStep
  <2>2. backend' = backend
    BY <1>10, EmitStep DEF TailCall
  <2>3. ASSUME TailsAreBare
        PROVE  /\ X86 /\ m.stk # <<>> /\ Last(m.stk) = ReturnAddress
               /\ m.reg["fp"] = CallerFp
    <3>1. X86 /\ ~Frame /\ Depth = 0 /\ Base = 1
      BY <2>1, <2>3 DEF Base
    <3>2. /\ Inside(m) /\ m.stk \in Seq(HostWord) /\ Len(m.stk) = 1
      BY <2>1, <3>1, RunningOperands DEF Machines
    <3>3. m.stk[1] = Header[1] /\ m.reg["fp"] = CallerFp
      BY <3>1, <3>2 DEF Inside
    <3>4. Header[1] = ReturnAddress
      BY <3>1 DEF Header, X86
    <3> QED
      BY <3>1, <3>2, <3>3, <3>4 DEF Last
  <2> QED
    BY <2>1, <2>2, <2>3 DEF ReturnsToCaller, TailCallReturnsToCaller, X86
<1>11. ASSUME Trap PROVE ReturnsToCaller'
  BY <1>1, <1>11, TrapStep
<1>12. ASSUME Finish PROVE ReturnsToCaller'
  <2>1. /\ m'.status = "done"
        /\ Frame => m'.at = ReturnAddress /\ m'.reg["fp"] = CallerFp /\ m'.stk = <<>>
    BY <1>12, FinishStep
  <2>2. backend' = backend
    BY <1>12, EmitStep DEF Finish
  <2> QED
    BY <2>1, <2>2 DEF ReturnsToCaller, TailCallReturnsToCaller, Frame
<1>13. CASE UNCHANGED vars
  BY <1>13 DEF vars, ReturnsToCaller, TailCallReturnsToCaller, Frame, X86
<1> QED
  BY <1>3, <1>4, <1>5, <1>6, <1>7, <1>8, <1>9, <1>10, <1>11, <1>12, <1>13 DEF Next

\* Framed code returns to its caller with the caller's frame pointer and
\* stack, whatever program was emitted; on x86-64 for programs that leave no
\* operand, which is what X86LeavesNothing says.
THEOREM NativeReturns ==
  ASSUME X86LeavesNothing
  PROVE  Spec => []ReturnsToCaller
<1>1. Init => ReturnsToCaller
  <2>1. Init => m.status = "run"
    BY InitNativeInv, PrologueCode, MemoryAssumption DEF Init, Inside
  <2> QED
    BY <2>1 DEF ReturnsToCaller, TailCallReturnsToCaller
<1>2. NativeInv /\ ReturnsToCaller /\ [Next]_vars => ReturnsToCaller'
  BY NextReturns
<1> QED
  BY <1>1, <1>2, NativeInvariant, PTL DEF Spec

-----------------------------------------------------------------------------
(***************************************************************************)
(* Refinement                                                              *)
(***************************************************************************)
\* 32-bit scalars that all machines push alike: on aarch64 and riscv64 those
\* that sign extension leaves as they are.
ScalarsAlike ==
  (\A b \in Backends : b.arch = "x86_64") \/ (\A v \in U32s : SignExtend(v) = v)

\* Entering the code is the initial state of the stack machine.
LEMMA InitImplements == Init => Promise!Init
<1> SUFFICES ASSUME Init
             PROVE  Promise!Init
  OBVIOUS
<1>1. backend \in Backends /\ last = Plain("none")
  BY DEF Init
<1>2. PICK mem \in StartMemories : m = [emit_prologue(Entry(backend)) EXCEPT !.mem = mem]
  BY DEF Init
<1>3. Inside(m) /\ Above(m.stk, Base) = <<>> /\ m.mem = mem /\ m.at = Nowhere
  BY <1>1, <1>2, PrologueCode, MemoryAssumption
<1>4. m.status = "run" /\ m.mem \in Memories
  BY <1>3 DEF Inside
<1>5. AbsStack = <<>> /\ AbsAt = Nowhere
  BY <1>3, <1>4 DEF AbsStack, AbsAt, Operands, Above
<1> QED
  BY <1>1, <1>4, <1>5 DEF Promise!Init, Plain

\* What the stack machine sees of a step that stays in the code.
LEMMA ContinuesAbstractly ==
  ASSUME NativeInv, m.status = "run", backend' = backend,
         NEW operands, Continues(m', operands)
  PROVE  /\ AbsStack = Operands /\ AbsStack' = operands
         /\ AbsAt' = AbsAt /\ m'.status = m.status
<1>1. m'.status = "run" /\ Above(m'.stk, Base) = operands
  BY DEF Continues, Inside
<1>2. Operands' = Above(m'.stk, Base)
  BY DEF Operands, Above, Base, X86, Frame
<1> QED
  BY <1>1, <1>2 DEF AbsStack, AbsAt

\* What it sees of a step that leaves the code.
LEMMA LeavesAbstractly ==
  ASSUME m'.status \in {"jump", "tail", "trap", "done"}
  PROVE  /\ AbsStack' = <<>>
         /\ AbsAt' = IF m'.status \in {"jump", "tail"} THEN m'.at ELSE Nowhere
  BY DEF AbsStack, AbsAt

\* Every operation that is emitted and run is that operation of the stack
\* machine.
LEMMA NextImplements ==
  ASSUME ScalarsAlike
  PROVE  NativeInv /\ [Next]_vars => [Promise!Next]_(Promise!vars)
<1> SUFFICES ASSUME NativeInv, [Next]_vars
             PROVE  [Promise!Next]_(Promise!vars)
  OBVIOUS
<1>1. ASSUME NEW v \in U64s, PushU64(v) PROVE Promise!Next
  <2>1. /\ m.status = "run" /\ backend' = backend
        /\ last' = Op("PushU64", 0, FALSE, v)
    BY <1>1, EmitStep DEF PushU64
  <2>2. Continues(m', Append(Operands, v)) /\ m'.mem = m.mem
    BY <1>1, PushU64Step
  <2>3. Promise!PushU64(v)
    BY <2>1, <2>2, ContinuesAbstractly DEF Promise!PushU64, Promise!Push, Op
  <2> QED
    BY <2>3, ScalarAssumption DEF Promise!Next
<1>2. ASSUME NEW v \in U32s, PushU32(v) PROVE Promise!Next
  <2>1. /\ m.status = "run" /\ backend' = backend
        /\ last' = Op("PushU32", 0, FALSE, v)
    BY <1>2, EmitStep DEF PushU32
  <2>2. X86 \/ SignExtend(v) = v
    BY DEF ScalarsAlike, NativeInv, X86
  <2>3. (IF X86 THEN v ELSE SignExtend(v)) = v
    BY <2>2
  <2>4. Continues(m', Append(Operands, v)) /\ m'.mem = m.mem
    BY <1>2, <2>3, PushU32Step
  <2>5. Promise!PushU32(v)
    BY <2>1, <2>4, ContinuesAbstractly DEF Promise!PushU32, Promise!Push, Op
  <2> QED
    BY <2>5, ScalarAssumption DEF Promise!Next
<1>3. ASSUME Pop PROVE Promise!Next
  <2>1. m.status = "run" /\ backend' = backend /\ last' = Plain("Pop")
    BY <1>3, EmitStep DEF Pop
  <2>2. Operands # <<>> /\ Continues(m', Front(Operands)) /\ m'.mem = m.mem
    BY <1>3, PopStep
  <2>3. Promise!Pop
    BY <2>1, <2>2, ContinuesAbstractly DEF Promise!Pop, Promise!Drop, Front, Plain
  <2> QED
    BY <2>3 DEF Promise!Next
<1>4. ASSUME NEW w \in Widths, NEW signed \in BOOLEAN, Load(w, signed)
      PROVE  Promise!Next
  <2>1. /\ m.status = "run" /\ backend' = backend
        /\ last' = Op("Load", w, signed, 0)
    BY <1>4, EmitStep DEF Load
  <2>2. /\ Operands # <<>> /\ Last(Operands) \in Addresses
        /\ Continues(m', Append(Front(Operands), Read(m.mem, Last(Operands), w, signed)))
        /\ m'.mem = m.mem
    BY <1>4, LoadStep
  <2>3. Promise!Load(w, signed)
    BY <2>1, <2>2, ContinuesAbstractly DEF Promise!Load, Promise!Drop, Promise!Top,
      Front, Last, Op
  <2> QED
    BY <2>3 DEF Promise!Next
<1>5. ASSUME NEW w \in Widths, Store(w) PROVE Promise!Next
  <2>1. /\ m.status = "run" /\ backend' = backend
        /\ last' = Op("Store", w, FALSE, 0)
    BY <1>5, EmitStep DEF Store
  <2>2. /\ Len(Operands) >= 2 /\ Last(Operands) \in Addresses
        /\ Continues(m', SubSeq(Operands, 1, Len(Operands) - 2))
        /\ m'.mem = Write(m.mem, Last(Operands), w, Operands[Len(Operands) - 1])
    BY <1>5, StoreStep
  <2>3. Promise!Store(w)
    BY <2>1, <2>2, ContinuesAbstractly DEF Promise!Store, Promise!Top, Promise!Below, Promise!Drop, Last, Op
  <2> QED
    BY <2>3 DEF Promise!Next
<1>6. ASSUME Ecall PROVE Promise!Next
  <2>1. m.status = "run" /\ backend' = backend /\ last' = Plain("Ecall")
    BY <1>6, EmitStep DEF Ecall
  <2>2. Continues(m', Operands) /\ m'.mem = m.mem
    BY <1>6, EcallStep
  <2>3. Promise!Ecall
    BY <2>1, <2>2, ContinuesAbstractly DEF Promise!Ecall, Plain
  <2> QED
    BY <2>3 DEF Promise!Next
<1>7. ASSUME NEW t \in Targets, Jump(t) PROVE Promise!Next
  <2>1. m.status = "run" /\ last' = Op("Jump", 0, FALSE, t)
    BY <1>7, EmitStep DEF Jump
  <2>2. m'.mem = m.mem /\ m'.status = "jump" /\ m'.at = t
    BY <1>7, JumpStep
  <2>3. Promise!Jump(t)
    BY <2>1, <2>2, LeavesAbstractly DEF Promise!Jump, Promise!Leave, Op
  <2> QED
    BY <2>3 DEF Promise!Next
<1>8. ASSUME NEW h \in Helpers, TailCall(h) PROVE Promise!Next
  <2>1. m.status = "run" /\ last' = Op("TailCall", 0, FALSE, h)
    BY <1>8, EmitStep DEF TailCall
  <2>2. m'.mem = m.mem /\ m'.status = "tail" /\ m'.at = h
    BY <1>8, TailCallStep
  <2>3. Promise!TailCall(h)
    BY <2>1, <2>2, LeavesAbstractly DEF Promise!TailCall, Promise!Leave, Op
  <2> QED
    BY <2>3 DEF Promise!Next
<1>9. ASSUME Trap PROVE Promise!Next
  <2>1. m.status = "run" /\ last' = Plain("Trap")
    BY <1>9, EmitStep DEF Trap
  <2>2. m'.mem = m.mem /\ m'.status = "trap"
    BY <1>9, TrapStep
  <2>3. Promise!Trap
    BY <2>1, <2>2, LeavesAbstractly DEF Promise!Trap, Promise!Leave, Plain
  <2> QED
    BY <2>3 DEF Promise!Next
<1>10. ASSUME Finish PROVE Promise!Next
  <2>1. m.status = "run" /\ last' = Plain("finish")
    BY <1>10, EmitStep DEF Finish
  <2>2. m'.mem = m.mem /\ m'.status = "done"
    BY <1>10, FinishStep
  <2>3. Promise!Finish
    BY <2>1, <2>2, LeavesAbstractly DEF Promise!Finish, Promise!Leave, Plain
  <2> QED
    BY <2>3 DEF Promise!Next
<1>11. CASE UNCHANGED vars
  <2>1. UNCHANGED Promise!vars
    BY <1>11 DEF vars, Promise!vars, AbsStack, AbsAt, Operands, Base, X86, Frame
  <2> QED
    BY <2>1
<1> QED
  BY <1>1, <1>2, <1>3, <1>4, <1>5, <1>6, <1>7, <1>8, <1>9, <1>10, <1>11 DEF Next

\* The machine code that a native backend emits does what OsOp says of the
\* program, for programs of any length (Backend::op of the three backends).
THEOREM NativeImplements ==
  ASSUME ScalarsAlike
  PROVE  Spec => ImplementsOsOp
<1>1. NativeInv /\ [Next]_vars => [Promise!Next]_(Promise!vars)
  BY NextImplements
<1> QED
  BY <1>1, InitImplements, NativeInvariant, PTL DEF Spec, ImplementsOsOp, Promise!Spec
-----------------------------------------------------------------------------
(***************************************************************************)
(* Guest memories                                                          *)
(***************************************************************************)
\* An address and its page.
LEMMA PageFacts ==
  ASSUME NEW a \in 0..(M - 1)
  PROVE  /\ PageOf(a) \in 0..(M \div PageSize - 1)
         /\ OffsetOf(a) \in Offsets
         /\ PageOf(a) * PageSize + OffsetOf(a) = a
<1>1. /\ M \in Nat \ {0} /\ PageSize \in Nat \ {0} /\ M % PageSize = 0
      /\ a \in Nat /\ a < M
  BY GuestMemoryAssumption
<1> DEFINE q == a \div PageSize
           k == M \div PageSize
<1>2. q \in Nat /\ a % PageSize \in 0..(PageSize - 1) /\ q * PageSize + (a % PageSize) = a
  BY <1>1
<1>3. k \in Nat /\ k * PageSize = M
  BY <1>1
<1> HIDE DEF q, k
<1>4. q < k
  <2>1. q * PageSize < k * PageSize
    BY <1>1, <1>2, <1>3
  <2>2. ASSUME k <= q PROVE FALSE
    <3>1. k * PageSize <= q * PageSize
      BY <1>1, <1>2, <1>3, <2>2
    <3> QED
      BY <1>1, <1>2, <1>3, <2>1, <3>1
  <2> QED
    BY <1>2, <1>3, <2>2
<1> QED
  BY <1>2, <1>3, <1>4 DEF PageOf, OffsetOf, Offsets, q, k

\* A page and an offset in it are an address.
LEMMA AddressOf ==
  ASSUME NEW p \in 0..(M \div PageSize - 1), NEW o \in Offsets
  PROVE  /\ p * PageSize + o \in 0..(M - 1)
         /\ PageOf(p * PageSize + o) = p
         /\ OffsetOf(p * PageSize + o) = o
<1>1. /\ M \in Nat \ {0} /\ PageSize \in Nat \ {0} /\ M % PageSize = 0
      /\ o \in 0..(PageSize - 1)
  BY GuestMemoryAssumption DEF Offsets
<1> DEFINE k == M \div PageSize
           a == p * PageSize + o
<1>2. k \in Nat /\ k * PageSize = M /\ p \in Nat /\ p + 1 <= k
  BY <1>1
<1> HIDE DEF k
<1>3. (p + 1) * PageSize <= k * PageSize
  BY <1>1, <1>2
<1>4. (p + 1) * PageSize = p * PageSize + PageSize
  BY <1>1, <1>2
<1>5. a \in 0..(M - 1)
  BY <1>1, <1>2, <1>3, <1>4
<1>6. (PageSize * p + o) \div PageSize = p /\ (PageSize * p + o) % PageSize = o
  BY <1>1, <1>2
<1>7. PageSize * p = p * PageSize
  BY <1>1, <1>2
<1> QED
  BY <1>5, <1>6, <1>7 DEF PageOf, OffsetOf

\* How far an address is from another, going up and around.
Distance(addr, a) == (a - addr) % M

\* Addresses wrap: the byte that is i bytes from addr, seen from either side.
LEMMA Around ==
  ASSUME NEW a \in 0..(M - 1), NEW addr \in 0..(M - 1), NEW n \in 1..8
  PROVE  /\ Distance(addr, a) \in 0..(M - 1)
         /\ ByteAddr(addr, Distance(addr, a)) = a
         /\ \A i \in 0..(n - 1) : ByteAddr(addr, i) \in 0..(M - 1)
         /\ \A i \in 0..(n - 1) : ByteAddr(addr, i) = a => Distance(addr, a) = i
<1>1. /\ M \in Nat \ {0} /\ M >= 8
      /\ a \in Nat /\ a < M /\ addr \in Nat /\ addr < M /\ n \in Nat /\ n <= 8
  BY GuestMemoryAssumption
<1>2. Distance(addr, a) = IF a >= addr THEN a - addr ELSE a - addr + M
  BY <1>1 DEF Distance
<1>3. Distance(addr, a) \in 0..(M - 1)
  BY <1>1, <1>2
<1>4. \A i \in 0..(M - 1) : ByteAddr(addr, i) = IF addr + i < M THEN addr + i ELSE addr + i - M
  BY <1>1 DEF ByteAddr
<1>5. ByteAddr(addr, Distance(addr, a)) = a
  BY <1>1, <1>2, <1>3, <1>4
<1>6. \A i \in 0..(n - 1) : i \in 0..(M - 1)
  BY <1>1
<1>7. \A i \in 0..(n - 1) : ByteAddr(addr, i) \in 0..(M - 1)
  BY <1>1, <1>4, <1>6
<1>8. ASSUME NEW i \in 0..(n - 1), ByteAddr(addr, i) = a PROVE Distance(addr, a) = i
  BY <1>1, <1>2, <1>4, <1>6, <1>8
<1> QED
  BY <1>3, <1>5, <1>7, <1>8

\* An address is one of an access when it is near enough above the first.
LEMMA CellsFacts ==
  ASSUME NEW addr \in 0..(M - 1), NEW n \in 1..8
  PROVE  /\ Cells(addr, n) \subseteq 0..(M - 1)
         /\ \A a \in 0..(M - 1) : Distance(addr, a) \in 0..(M - 1)
         /\ \A a \in 0..(M - 1) : a \in Cells(addr, n) <=> Distance(addr, a) \in 0..(n - 1)
<1>1. \A i \in 0..(n - 1) : ByteAddr(addr, i) \in 0..(M - 1)
  BY Around
<1>2. ASSUME NEW a \in 0..(M - 1)
      PROVE  /\ Distance(addr, a) \in 0..(M - 1)
             /\ a \in Cells(addr, n) <=> Distance(addr, a) \in 0..(n - 1)
  <2>1. /\ Distance(addr, a) \in 0..(M - 1)
        /\ ByteAddr(addr, Distance(addr, a)) = a
        /\ \A i \in 0..(n - 1) : ByteAddr(addr, i) = a => Distance(addr, a) = i
    BY Around
  <2> QED
    BY <2>1 DEF Cells
<1> QED
  BY <1>1, <1>2 DEF Cells

\* Pages of the address space that hold bytes.
Paged(ps) == \A p \in DOMAIN ps : p \in 0..(M \div PageSize - 1) /\ ps[p] \in [Offsets -> Byte]

\* The byte at an address; where there is no page it is zero.
ByteAt(ps, a) == IF PageOf(a) \in DOMAIN ps THEN ps[PageOf(a)][OffsetOf(a)] ELSE 0

\* A write leaves pages, wherever it starts.
LEMMA PagedWrite ==
  ASSUME NEW ps, Paged(ps), NEW addr \in Int, NEW n \in 1..8, NEW value,
         \A i \in 0..(n - 1) : value[i] \in Byte
  PROVE  Paged(write_bytes_at(ps, addr, n, value))
<1> DEFINE new == write_bytes_at(ps, addr, n, value)
           touched == {PageOf(ByteAddr(addr, i)) : i \in 0..(n - 1)}
           Old(p, o) == IF p \in DOMAIN ps THEN ps[p][o] ELSE 0
           At(p, o) == (p * PageSize + o - addr) % M
           Byte0(p, o) == IF At(p, o) < n THEN value[At(p, o)] ELSE Old(p, o)
<1>1. /\ M \in Nat \ {0} /\ PageSize \in Nat \ {0} /\ R \in Nat \ {0, 1} /\ Byte = 0..(R - 1)
      /\ n \in Nat
  BY GuestMemoryAssumption
<1>2. new = [p \in DOMAIN ps \cup touched |-> [o \in Offsets |-> Byte0(p, o)]]
  BY DEF write_bytes_at
<1>3. touched \subseteq 0..(M \div PageSize - 1)
  <2>1. \A i \in 0..(n - 1) : ByteAddr(addr, i) \in 0..(M - 1)
    BY <1>1 DEF ByteAddr
  <2> QED
    BY <2>1, PageFacts
<1>4. \A p \in 0..(M \div PageSize - 1), o \in Offsets : At(p, o) \in 0..(M - 1)
  <2> SUFFICES ASSUME NEW p \in 0..(M \div PageSize - 1), NEW o \in Offsets PROVE At(p, o) \in 0..(M - 1)
    OBVIOUS
  <2>1. p * PageSize \in Int /\ o \in Int
    BY <1>1 DEF Offsets
  <2> QED
    BY <1>1, <2>1
<1> HIDE DEF new, touched, At
<1>5. \A p, o : o \in Offsets => Old(p, o) \in Byte
  BY <1>1 DEF Paged
<1> HIDE DEF Old
<1>6. \A p \in 0..(M \div PageSize - 1), o \in Offsets : Byte0(p, o) \in Byte
  <2> SUFFICES ASSUME NEW p \in 0..(M \div PageSize - 1), NEW o \in Offsets PROVE Byte0(p, o) \in Byte
    OBVIOUS
  <2>1. At(p, o) < n => At(p, o) \in 0..(n - 1)
    BY <1>1, <1>4
  <2> QED
    BY <1>5, <2>1
<1> HIDE DEF Byte0
<1>7. DOMAIN new = DOMAIN ps \cup touched /\ \A p \in DOMAIN new : new[p] = [o \in Offsets |-> Byte0(p, o)]
  BY <1>2
<1>8. \A p \in DOMAIN new : p \in 0..(M \div PageSize - 1)
  BY <1>3, <1>7 DEF Paged
<1>9. ASSUME NEW p \in DOMAIN new PROVE new[p] \in [Offsets -> Byte]
  <2>1. \A o \in Offsets : Byte0(p, o) \in Byte
    BY <1>6, <1>8
  <2>2. [o \in Offsets |-> Byte0(p, o)] \in [Offsets -> Byte]
    BY <2>1
  <2> QED
    BY <1>7, <2>2
<1>10. Paged(new)
  BY <1>8, <1>9 DEF Paged
<1> QED
  BY <1>10 DEF new

\* The bytes of pages after a write of n bytes.
Written(new, ps, addr, n, value) ==
  \A a \in 0..(M - 1) :
    ByteAt(new, a) = IF a \in Cells(addr, n) THEN value[Distance(addr, a)] ELSE ByteAt(ps, a)

\* The bytes of pages after one of them has changed.
Poked(new, ps, addr, v) ==
  \A a \in 0..(M - 1) : ByteAt(new, a) = IF a = addr THEN v ELSE ByteAt(ps, a)

\* What a write leaves in the pages: the value where it was written, and
\* elsewhere what was there.
LEMMA WriteBytes ==
  ASSUME NEW ps, Paged(ps), NEW addr \in 0..(M - 1), NEW n \in 1..8, NEW value,
         \A i \in 0..(n - 1) : value[i] \in Byte
  PROVE  /\ Paged(write_bytes_at(ps, addr, n, value))
         /\ Written(write_bytes_at(ps, addr, n, value), ps, addr, n, value)
<1> DEFINE new == write_bytes_at(ps, addr, n, value)
           touched == {PageOf(ByteAddr(addr, i)) : i \in 0..(n - 1)}
           Old(p, o) == IF p \in DOMAIN ps THEN ps[p][o] ELSE 0
           At(p, o) == (p * PageSize + o - addr) % M
           Byte0(p, o) == IF At(p, o) < n THEN value[At(p, o)] ELSE Old(p, o)
<1>0. /\ M \in Nat \ {0} /\ M >= 8 /\ PageSize \in Nat \ {0} /\ R \in Nat \ {0, 1} /\ Byte = 0..(R - 1)
      /\ addr \in Int /\ n \in Nat
  BY GuestMemoryAssumption
<1>1. new = [p \in DOMAIN ps \cup touched |-> [o \in Offsets |-> Byte0(p, o)]]
  BY DEF write_bytes_at
<1>2. touched = {PageOf(a) : a \in Cells(addr, n)}
  BY DEF Cells
<1>3. /\ Cells(addr, n) \subseteq 0..(M - 1)
      /\ \A a \in 0..(M - 1) : Distance(addr, a) \in 0..(M - 1)
      /\ \A a \in 0..(M - 1) : a \in Cells(addr, n) <=> Distance(addr, a) \in 0..(n - 1)
  BY CellsFacts
<1>4. touched \subseteq 0..(M \div PageSize - 1)
  BY <1>2, <1>3, PageFacts
<1>5. ASSUME NEW p \in 0..(M \div PageSize - 1), NEW o \in Offsets
      PROVE  At(p, o) = Distance(addr, p * PageSize + o) /\ p * PageSize + o \in 0..(M - 1)
  <2>1. p * PageSize + o \in 0..(M - 1)
    BY AddressOf
  <2>2. p * PageSize \in Int /\ o \in Int
    BY <1>0 DEF Offsets
  <2>3. p * PageSize + o - addr = (p * PageSize + o) - addr
    BY <1>0, <2>2
  <2> QED
    BY <2>1, <2>3, Zenon DEF Distance
<1> HIDE DEF new, touched, At
<1>6. /\ DOMAIN new = DOMAIN ps \cup touched
      /\ \A p \in DOMAIN new : new[p] = [o \in Offsets |-> Byte0(p, o)]
  <2> HIDE DEF Byte0
  <2> QED
    BY <1>1
<1>10. Paged(new)
  <2>1. write_bytes_at(ps, addr, n, value) = new
    BY DEF new
  <2> QED
    BY <1>0, <2>1, PagedWrite
<1>11. ASSUME NEW a \in 0..(M - 1)
       PROVE  ByteAt(new, a) = IF a \in Cells(addr, n) THEN value[Distance(addr, a)] ELSE ByteAt(ps, a)
  <2> DEFINE p == PageOf(a)
             o == OffsetOf(a)
  <2>1. p \in 0..(M \div PageSize - 1) /\ o \in Offsets /\ p * PageSize + o = a
    BY PageFacts
  <2> HIDE DEF p, o
  <2>2. At(p, o) = Distance(addr, a)
    BY <1>5, <2>1
  <2>3. a \in Cells(addr, n) <=> At(p, o) < n
    <3>1. Distance(addr, a) \in 0..(M - 1)
      BY <1>3
    <3>2. Distance(addr, a) \in 0..(n - 1) <=> Distance(addr, a) < n
      BY <1>0, <3>1
    <3> QED
      BY <1>3, <2>2, <3>2
  <2>4. Byte0(p, o) = IF a \in Cells(addr, n) THEN value[Distance(addr, a)] ELSE Old(p, o)
    BY <2>2, <2>3
  <2> HIDE DEF Byte0
  <2>5. CASE p \in DOMAIN new
    <3>1. new[p][o] = Byte0(p, o)
      BY <1>6, <2>1, <2>5
    <3> QED
      BY <2>4, <2>5, <3>1 DEF ByteAt, Old, p, o
  <2>6. CASE p \notin DOMAIN new
    <3>1. a \notin Cells(addr, n) /\ p \notin DOMAIN ps
      BY <1>2, <1>6, <2>6 DEF p
    <3> QED
      BY <2>6, <3>1 DEF ByteAt, p
  <2> QED
    BY <2>5, <2>6
<1> QED
  BY <1>10, <1>11 DEF new, Written

\* A byte of a page that is written by itself.
LEMMA PokeByte ==
  ASSUME NEW ps, Paged(ps), NEW addr \in 0..(M - 1), NEW v \in Byte
  PROVE  LET new == [get_page(ps, PageOf(addr)) EXCEPT ![PageOf(addr)][OffsetOf(addr)] = v]
         IN  Paged(new) /\ Poked(new, ps, addr, v)
<1> DEFINE p == PageOf(addr)
           o == OffsetOf(addr)
           old == get_page(ps, p)
           new == [old EXCEPT ![p][o] = v]
<1>0. R \in Nat \ {0, 1} /\ Byte = 0..(R - 1)
  BY GuestMemoryAssumption
<1>1. p \in 0..(M \div PageSize - 1) /\ o \in Offsets /\ p * PageSize + o = addr
  BY PageFacts
<1>2. \A a \in 0..(M - 1) : OffsetOf(a) \in Offsets /\ (PageOf(a) = p /\ OffsetOf(a) = o => a = addr)
  <2> SUFFICES ASSUME NEW a \in 0..(M - 1)
               PROVE  OffsetOf(a) \in Offsets /\ (PageOf(a) = p /\ OffsetOf(a) = o => a = addr)
    OBVIOUS
  <2>1. OffsetOf(a) \in Offsets /\ PageOf(a) * PageSize + OffsetOf(a) = a
    BY PageFacts
  <2> QED
    BY <1>1, <2>1
<1> HIDE DEF p, o
<1>3. old = [q \in DOMAIN ps \cup {p} |-> IF q \in DOMAIN ps THEN ps[q] ELSE ZeroPage]
  BY DEF get_page
<1> HIDE DEF old
<1>4. DOMAIN old = DOMAIN ps \cup {p} /\ \A q \in DOMAIN old : old[q] \in [Offsets -> Byte]
  <2>1. ZeroPage \in [Offsets -> Byte]
    BY <1>0 DEF ZeroPage
  <2> QED
    BY <1>3, <2>1 DEF Paged
<1>5. /\ DOMAIN new = DOMAIN old
      /\ new[p] = [old[p] EXCEPT ![o] = v]
      /\ \A q \in DOMAIN old : q # p => new[q] = old[q]
  BY <1>3, <1>4
<1> HIDE DEF new
<1>6. Paged(new)
  BY <1>1, <1>4, <1>5 DEF Paged
<1>7. ASSUME NEW a \in 0..(M - 1) PROVE ByteAt(new, a) = IF a = addr THEN v ELSE ByteAt(ps, a)
  <2>1. CASE a = addr
    BY <1>1, <1>4, <1>5, <2>1 DEF ByteAt, p, o
  <2>2. CASE a # addr /\ PageOf(a) = p
    <3>1. OffsetOf(a) \in Offsets /\ OffsetOf(a) # o
      BY <1>2, <2>2
    <3>2. ByteAt(new, a) = old[p][OffsetOf(a)]
      BY <1>4, <1>5, <2>2, <3>1 DEF ByteAt
    <3>3. old[p][OffsetOf(a)] = ByteAt(ps, a)
      BY <1>3, <2>2, <3>1 DEF ByteAt, ZeroPage
    <3> QED
      BY <2>2, <3>2, <3>3
  <2>3. CASE a # addr /\ PageOf(a) # p
    BY <1>3, <1>4, <1>5, <2>3 DEF ByteAt
  <2> QED
    BY <2>1, <2>2, <2>3
<1> QED
  BY <1>6, <1>7 DEF Poked, new, old, p, o

\* On a host of 64 bits an access of a linear memory is in bounds exactly when
\* all of its addresses are those of the block.
LEMMA LinearBounds ==
  ASSUME M <= U, NEW addr \in 0..(M - 1), NEW n \in 1..8
  PROVE  LET Block == LinearBase..(LinearBase + LinearSize - 1)
         IN  /\ LinearOk(addr, n) <=> Cells(addr, n) \subseteq Block
             /\ LinearOk(addr, n) =>
                  /\ offset(addr) % U = addr - LinearBase
                  /\ offset(addr) \in Nat
                  /\ addr >= LinearBase /\ addr + n <= LinearBase + LinearSize
                  /\ \A i \in 0..(n - 1) : ByteAddr(addr, i) = addr + i
                  /\ \A a \in 0..(M - 1) : a \in Cells(addr, n) <=> a - addr \in 0..(n - 1)
                  /\ \A a \in 0..(M - 1) : a \in Cells(addr, n) => Distance(addr, a) = a - addr
<1> DEFINE Block == LinearBase..(LinearBase + LinearSize - 1)
           Fits == addr >= LinearBase /\ addr + n <= LinearBase + LinearSize
<1>0. /\ M \in Nat \ {0} /\ M >= 8 /\ U \in Nat \ {0} /\ M <= U
      /\ LinearSize \in Nat /\ LinearBase \in Nat /\ LinearSize < U - 8 /\ LinearBase + LinearSize < M
      /\ addr \in Nat /\ addr < M /\ n \in Nat /\ 1 <= n /\ n <= 8 /\ Fault \notin Int
  BY GuestMemoryAssumption
<1>1. ASSUME addr >= LinearBase
      PROVE  /\ offset(addr) = addr - LinearBase /\ offset(addr) \in Nat /\ offset(addr) # Fault
             /\ offset(addr) % U = addr - LinearBase
  <2>1. offset(addr) = addr - LinearBase
    BY <1>1 DEF offset
  <2>2. addr - LinearBase \in 0..(U - 1)
    BY <1>0, <1>1
  <2>3. (addr - LinearBase) % U = addr - LinearBase
    BY <1>0, <2>2
  <2> QED
    BY <1>0, <2>1, <2>2, <2>3
<1>2. LinearOk(addr, n) <=> Fits
  <2>1. CASE addr >= LinearBase
    <3> DEFINE b == addr - LinearBase
    <3>1. b \in Nat /\ b < U /\ offset(addr) # Fault /\ offset(addr) % U = b
      BY <1>0, <1>1, <2>1
    <3>2. LinearOk(addr, n) <=> ~(saturating_add(b, n) > LinearSize \/ saturating_add(b, n) < b)
      BY <3>1 DEF LinearOk, InBounds
    <3>3. ~(saturating_add(b, n) > LinearSize \/ saturating_add(b, n) < b) <=> b + n <= LinearSize
      <4> HIDE DEF b
      <4> QED
        BY <1>0, <3>1 DEF saturating_add
    <3> QED
      BY <1>0, <2>1, <3>2, <3>3
  <2>2. CASE ~(addr >= LinearBase)
    BY <2>2 DEF LinearOk, offset
  <2> QED
    BY <2>1, <2>2
<1>3. \A i \in 0..(M - 1) : ByteAddr(addr, i) = IF addr + i < M THEN addr + i ELSE addr + i - M
  BY <1>0 DEF ByteAddr
<1>4. ASSUME Fits
      PROVE  /\ \A i \in 0..(n - 1) : ByteAddr(addr, i) = addr + i
             /\ Cells(addr, n) = addr..(addr + n - 1)
  <2>1. \A i \in 0..(n - 1) : i \in 0..(M - 1) /\ addr + i < M
    BY <1>0, <1>4
  <2>2. \A i \in 0..(n - 1) : ByteAddr(addr, i) = addr + i
    BY <1>3, <2>1
  <2>3. Cells(addr, n) = {addr + i : i \in 0..(n - 1)}
    BY <2>2 DEF Cells
  <2>4. {addr + i : i \in 0..(n - 1)} = addr..(addr + n - 1)
    <3>1. ASSUME NEW a \in addr..(addr + n - 1) PROVE \E i \in 0..(n - 1) : a = addr + i
      <4>1. a - addr \in 0..(n - 1) /\ a = addr + (a - addr)
        BY <1>0
      <4> QED
        BY <4>1
    <3>2. \A i \in 0..(n - 1) : addr + i \in addr..(addr + n - 1)
      BY <1>0
    <3> QED
      BY <3>1, <3>2
  <2> QED
    BY <2>2, <2>3, <2>4
<1>5. ASSUME Fits
      PROVE  /\ \A a \in 0..(M - 1) : a \in Cells(addr, n) <=> a - addr \in 0..(n - 1)
             /\ \A a \in 0..(M - 1) : a \in Cells(addr, n) => Distance(addr, a) = a - addr
  <2>1. \A a \in 0..(M - 1) : a \in Cells(addr, n) <=> a - addr \in 0..(n - 1)
    BY <1>0, <1>4, <1>5
  <2>2. ASSUME NEW a \in 0..(M - 1), a \in Cells(addr, n) PROVE Distance(addr, a) = a - addr
    <3>1. a - addr \in 0..(M - 1)
      BY <1>0, <2>1, <2>2
    <3> QED
      BY <1>0, <3>1 DEF Distance
  <2> QED
    BY <2>1, <2>2
<1>6. Fits => Cells(addr, n) \subseteq Block
  BY <1>0, <1>4
<1>7. ASSUME ~Fits, Cells(addr, n) \subseteq Block PROVE FALSE
  <2>1. \A i \in 0..(n - 1) : ByteAddr(addr, i) \in Block
    BY <1>7 DEF Cells
  <2>2. ByteAddr(addr, 0) = addr /\ 0 \in 0..(n - 1)
    BY <1>0, <1>3
  <2>3. addr >= LinearBase /\ addr + n > LinearBase + LinearSize /\ addr \in Block
    BY <1>0, <1>7, <2>1, <2>2
  <2>4. CASE addr + n <= M
    <3>1. n - 1 \in 0..(n - 1) /\ n - 1 \in 0..(M - 1) /\ addr + (n - 1) < M
      BY <1>0, <2>4
    <3>2. ByteAddr(addr, n - 1) = addr + (n - 1)
      BY <1>3, <3>1
    <3> QED
      BY <1>0, <2>1, <2>3, <3>1, <3>2
  <2>5. CASE addr + n > M
    <3> DEFINE i == M - 1 - addr
    <3>1. i \in 0..(n - 1) /\ i \in 0..(M - 1) /\ addr + i < M /\ addr + i = M - 1
      BY <1>0, <2>5
    <3> HIDE DEF i
    <3>2. ByteAddr(addr, i) = M - 1
      BY <1>3, <3>1
    <3>3. M - 1 \in Block
      BY <2>1, <3>1, <3>2
    <3> QED
      BY <1>0, <3>3
  <2> QED
    BY <1>0, <2>4, <2>5
<1> QED
  BY <1>1, <1>2, <1>4, <1>5, <1>6, <1>7

-----------------------------------------------------------------------------
\* What a guest memory holds.
MemoryInv == Paged(pages) /\ memory \in [0..(LinearSize - 1) -> Byte]

\* The configuration of the tables that are kept in it.
TableInv == kind = "tables" => table \in Tables

\* The abstract bytes, and the addresses that exist.
LEMMA AbstractMemory ==
  /\ kind = "legacy" => AbsBytes = [a \in 0..(M - 1) |-> ByteAt(pages, a)]
  /\ kind = "linear" =>
       AbsBytes = [a \in 0..(M - 1) |->
                     IF a \in LinearBase..(LinearBase + LinearSize - 1) THEN memory[a - LinearBase] ELSE 0]
  /\ kind = "legacy" => AbsExists = 0..(M - 1)
  /\ kind = "linear" => AbsExists = LinearBase..(LinearBase + LinearSize - 1)
BY DEF AbsBytes, AbsExists, ByteAt

\* A new memory has the invariant, and is the empty flat memory.
LEMMA MemoryStarts ==
  ASSUME MemoryInit
  PROVE  MemoryInv /\ writes \in 0..MaxWrites /\ Flat!Init
<1>0. /\ R \in Nat \ {0, 1} /\ Byte = 0..(R - 1) /\ M \in Nat /\ MaxWrites \in Nat
      /\ LinearSize \in Nat /\ LinearBase \in Nat /\ LinearBase + LinearSize < M
  BY GuestMemoryAssumption
<1>1. MemoryInv /\ writes \in 0..MaxWrites
  BY <1>0 DEF MemoryInit, MemoryInv, Paged
<1>2. AbsBytes = [a \in 0..(M - 1) |-> 0]
  <2>1. ASSUME NEW a \in 0..(M - 1), kind = "linear", a \in LinearBase..(LinearBase + LinearSize - 1)
        PROVE  memory[a - LinearBase] = 0
    BY <1>0, <2>1 DEF MemoryInit
  <2> QED
    BY <2>1 DEF MemoryInit, AbsBytes
<1>3. AbsExists \in SUBSET (0..(M - 1))
  BY <1>0 DEF AbsExists
<1> QED
  BY <1>1, <1>2, <1>3 DEF MemoryInit, Flat!Init, Flat!Access

\* A step of a memory that wraps and has every address.
LEMMA LegacyStep ==
  ASSUME MemoryInv, kind = "legacy", NEW addr \in Accesses,
         \/ \E n \in AccessWidths : LegacyRead(addr, n)
         \/ \E n \in AccessWidths, v \in Values : LegacyWrite(addr, n, v)
         \/ \E v \in Values : GetPage(addr, v)
  PROVE  MemoryInv' /\ Flat!Next
<1>0. /\ addr \in 0..(M - 1) /\ AccessWidths \subseteq 1..8 /\ M \in Nat \ {0} /\ M >= 8
      /\ \A v \in Values, i \in 0..7 : ValueAt(v)[i] \in Byte
  BY GuestMemoryAssumption
<1>1. /\ AbsBytes = [a \in 0..(M - 1) |-> ByteAt(pages, a)] /\ AbsExists = 0..(M - 1)
      /\ Paged(pages)
  BY AbstractMemory DEF MemoryInv
<1>2. ASSUME kind' = kind
      PROVE  AbsBytes' = [a \in 0..(M - 1) |-> ByteAt(pages', a)] /\ AbsExists' = AbsExists
  BY <1>2, <1>1 DEF AbsBytes, AbsExists, ByteAt
<1>3. \A n \in AccessWidths : Flat!Cells(addr, n) = Cells(addr, n) /\ Flat!Accessible(addr, n)
  <2> SUFFICES ASSUME NEW n \in AccessWidths
               PROVE  Flat!Cells(addr, n) = Cells(addr, n) /\ Flat!Accessible(addr, n)
    OBVIOUS
  <2>1. Flat!Cells(addr, n) = Cells(addr, n)
    BY Zenon DEF Flat!Cells, Flat!Cell, Cells, ByteAddr
  <2>2. Cells(addr, n) \subseteq 0..(M - 1)
    BY <1>0, CellsFacts
  <2> QED
    BY <1>1, <2>1, <2>2 DEF Flat!Accessible
<1>4. ASSUME NEW n \in AccessWidths, LegacyRead(addr, n)
      PROVE  MemoryInv' /\ Flat!ReadBytes(addr, n)
  <2>1. /\ result' = read_bytes_at(pages, addr, n) /\ UNCHANGED <<kind, pages, memory, writes>>
        /\ asked' = [op |-> "read", addr |-> addr, n |-> n, v |-> 0]
    BY <1>4 DEF LegacyRead, Asked
  <2>2. AbsBytes' = AbsBytes /\ AbsExists' = AbsExists
    BY <1>1, <1>2, <2>1
  <2>3. \A i \in 0..(n - 1) : ByteAddr(addr, i) \in 0..(M - 1)
    BY <1>0, Around
  <2>4. read_bytes_at(pages, addr, n) = [i \in 0..(n - 1) |-> ByteAt(pages, ByteAddr(addr, i))]
    BY Zenon DEF read_bytes_at, ByteAt
  <2>5. [i \in 0..(n - 1) |-> ByteAt(pages, ByteAddr(addr, i))] = [i \in 0..(n - 1) |-> AbsBytes[ByteAddr(addr, i)]]
    BY <1>1, <2>3
  <2>6. [i \in 0..(n - 1) |-> AbsBytes[ByteAddr(addr, i)]] = [i \in 0..(n - 1) |-> AbsBytes[Flat!Cell(addr, i)]]
    BY Zenon DEF ByteAddr, Flat!Cell
  <2>7. MemoryInv'
    BY <2>1 DEF MemoryInv, Paged
  <2> QED
    BY <1>3, <2>1, <2>2, <2>4, <2>5, <2>6, <2>7, Zenon DEF Flat!ReadBytes, Flat!Access
<1>5. ASSUME NEW n \in AccessWidths, NEW v \in Values, LegacyWrite(addr, n, v)
      PROVE  MemoryInv' /\ Flat!WriteBytes(addr, n, v)
  <2> DEFINE value == ValueAt(v)
             new == write_bytes_at(pages, addr, n, value)
  <2>1. /\ pages' = new /\ result' = NoBytes /\ UNCHANGED <<kind, memory>>
        /\ asked' = [op |-> "write", addr |-> addr, n |-> n, v |-> v]
    BY <1>5 DEF LegacyWrite, Asked
  <2>0. addr \in 0..(M - 1) /\ Paged(pages)
    BY <1>0, <1>1
  <2>2. n \in 1..8 /\ \A i \in 0..(n - 1) : value[i] \in Byte
    BY <1>0
  <2> HIDE DEF value, new
  <2>3. Paged(new) /\ Written(new, pages, addr, n, value)
    BY <2>0, <2>2, WriteBytes DEF new
  <2>4. AbsBytes' = [a \in 0..(M - 1) |->
                       IF a \in Cells(addr, n) THEN value[Distance(addr, a)] ELSE AbsBytes[a]]
    BY <1>1, <1>2, <2>1, <2>3 DEF Written
  <2>5. AbsBytes' = [a \in 0..(M - 1) |->
                       IF a \in Flat!Cells(addr, n) THEN value[(a - addr) % M] ELSE AbsBytes[a]]
    BY <1>3, <2>4, Zenon DEF Distance
  <2>6. MemoryInv'
    BY <1>1, <2>1, <2>3 DEF MemoryInv, Paged
  <2>7. AbsExists' = AbsExists
    BY <1>2, <2>1
  <2> QED
    BY <1>3, <2>1, <2>5, <2>6, <2>7, Zenon DEF Flat!WriteBytes, Flat!Access, NoBytes, value
<1>6. ASSUME NEW v \in Values, GetPage(addr, v)
      PROVE  MemoryInv' /\ Flat!Poke(addr, v)
  <2> DEFINE b == ValueAt(v)[0]
             new == [get_page(pages, PageOf(addr)) EXCEPT ![PageOf(addr)][OffsetOf(addr)] = b]
  <2>1. /\ pages' = new /\ result' = NoBytes /\ UNCHANGED <<kind, memory>>
        /\ asked' = [op |-> "poke", addr |-> addr, n |-> 1, v |-> v]
    BY <1>6 DEF GetPage, Asked
  <2>0. addr \in 0..(M - 1) /\ Paged(pages)
    BY <1>0, <1>1
  <2>2. b \in Byte
    BY <1>0
  <2> HIDE DEF b, new
  <2>3. Paged(new) /\ Poked(new, pages, addr, b)
    BY <2>0, <2>2, PokeByte DEF new
  <2>4. AbsBytes' = [AbsBytes EXCEPT ![addr] = b]
    BY <1>0, <1>1, <1>2, <2>1, <2>3 DEF Poked
  <2>5. Flat!Accessible(addr, 1)
    <3>1. Flat!Cells(addr, 1) = Cells(addr, 1)
      BY Zenon DEF Flat!Cells, Flat!Cell, Cells, ByteAddr
    <3>2. Cells(addr, 1) \subseteq 0..(M - 1)
      BY <1>0, CellsFacts
    <3> QED
      BY <1>1, <3>1, <3>2 DEF Flat!Accessible
  <2>6. MemoryInv'
    BY <1>1, <2>1, <2>3 DEF MemoryInv, Paged
  <2>7. AbsExists' = AbsExists
    BY <1>2, <2>1
  <2> QED
    BY <2>1, <2>4, <2>5, <2>6, <2>7, Zenon DEF Flat!Poke, Flat!Access, NoBytes, b
<1>7. CASE \E n \in AccessWidths : LegacyRead(addr, n)
  BY <1>4, <1>7, Zenon DEF Flat!Next
<1>8. CASE \E n \in AccessWidths, v \in Values : LegacyWrite(addr, n, v)
  BY <1>5, <1>8, Zenon DEF Flat!Next
<1>9. CASE \E v \in Values : GetPage(addr, v)
  BY <1>6, <1>9, Zenon DEF Flat!Next
<1> QED
  BY <1>7, <1>8, <1>9

\* A block with bounds keeps holding bytes, on any host.
LEMMA LinearTyped ==
  ASSUME MemoryInv, NEW addr \in Accesses,
         \/ \E n \in AccessWidths : LinearRead(addr, n)
         \/ \E n \in AccessWidths, v \in Values : LinearWrite(addr, n, v)
  PROVE  MemoryInv'
<1>0. /\ AccessWidths \subseteq 1..8 /\ LinearSize \in Nat
      /\ \A v \in Values, i \in 0..7 : ValueAt(v)[i] \in Byte
  BY GuestMemoryAssumption
<1>1. Paged(pages) /\ memory \in [0..(LinearSize - 1) -> Byte]
  BY DEF MemoryInv
<1>2. ASSUME NEW n \in AccessWidths, NEW v \in Values, NEW off
      PROVE  write_bytes_linear(memory, off, n, ValueAt(v)) \in [0..(LinearSize - 1) -> Byte]
  <2> DEFINE value == ValueAt(v)
             low == off % U
  <2>1. \A i \in 0..(n - 1) : value[i] \in Byte
    BY <1>0
  <2>2. write_bytes_linear(memory, off, n, value) =
          [a \in DOMAIN memory |-> IF a - low \in 0..(n - 1) THEN value[a - low] ELSE memory[a]]
    BY DEF write_bytes_linear
  <2> HIDE DEF value, low
  <2>3. write_bytes_linear(memory, off, n, value) \in [0..(LinearSize - 1) -> Byte]
    BY <1>1, <2>1, <2>2
  <2> QED
    BY <2>3 DEF value
<1>3. Paged(pages') /\ memory' \in [0..(LinearSize - 1) -> Byte]
  BY <1>1, <1>2 DEF LinearRead, LinearWrite, Paged
<1> QED
  BY <1>3 DEF MemoryInv, Paged

\* A step of a memory with bounds, on a host of 64 bits.
LEMMA LinearStep ==
  ASSUME M <= U, MemoryInv, kind = "linear", NEW addr \in Accesses,
         \/ \E n \in AccessWidths : LinearRead(addr, n)
         \/ \E n \in AccessWidths, v \in Values : LinearWrite(addr, n, v)
  PROVE  Flat!Next
<1> DEFINE Block == LinearBase..(LinearBase + LinearSize - 1)
<1>0. /\ addr \in 0..(M - 1) /\ AccessWidths \subseteq 1..8 /\ M \in Nat \ {0} /\ M >= 8
      /\ LinearSize \in Nat /\ LinearBase \in Nat /\ LinearBase + LinearSize < M
      /\ \A v \in Values, i \in 0..7 : ValueAt(v)[i] \in Byte
  BY GuestMemoryAssumption
<1>1. /\ AbsBytes = [a \in 0..(M - 1) |-> IF a \in Block THEN memory[a - LinearBase] ELSE 0]
      /\ AbsExists = Block
      /\ memory \in [0..(LinearSize - 1) -> Byte]
      /\ Paged(pages)
  BY AbstractMemory DEF MemoryInv
<1>2. ASSUME kind' = kind
      PROVE  /\ AbsBytes' = [a \in 0..(M - 1) |-> IF a \in Block THEN memory'[a - LinearBase] ELSE 0]
             /\ AbsExists' = AbsExists
  BY <1>2, <1>1 DEF AbsBytes, AbsExists
<1>3. ASSUME NEW n \in AccessWidths
      PROVE  Flat!Cells(addr, n) = Cells(addr, n) /\ (Flat!Accessible(addr, n) <=> LinearOk(addr, n))
  <2>1. Flat!Cells(addr, n) = Cells(addr, n)
    BY Zenon DEF Flat!Cells, Flat!Cell, Cells, ByteAddr
  <2>2. n \in 1..8
    BY <1>0
  <2>3. LinearOk(addr, n) <=> Cells(addr, n) \subseteq Block
    BY <1>0, <2>2, LinearBounds
  <2> QED
    BY <1>1, <2>1, <2>3, Zenon DEF Flat!Accessible
<1>4. ASSUME NEW n \in AccessWidths, LinearOk(addr, n)
      PROVE  /\ offset(addr) % U = addr - LinearBase /\ offset(addr) \in Nat
             /\ addr >= LinearBase /\ addr + n <= LinearBase + LinearSize
             /\ \A i \in 0..(n - 1) : ByteAddr(addr, i) = addr + i
             /\ \A a \in 0..(M - 1) : a \in Cells(addr, n) <=> a - addr \in 0..(n - 1)
             /\ \A a \in 0..(M - 1) : a \in Cells(addr, n) => Distance(addr, a) = a - addr
  <2>1. n \in 1..8
    BY <1>0
  <2> QED
    BY <1>0, <1>4, <2>1, LinearBounds
<1>5. ASSUME NEW n \in AccessWidths, LinearRead(addr, n)
      PROVE  Flat!ReadBytes(addr, n)
  <2>1. /\ result' = IF LinearOk(addr, n) THEN read_bytes_linear(memory, offset(addr), n) ELSE Fault
        /\ UNCHANGED <<kind, pages, memory, writes>>
        /\ asked' = [op |-> "read", addr |-> addr, n |-> n, v |-> 0]
    BY <1>5 DEF LinearRead, Asked
  <2>2. AbsBytes' = AbsBytes /\ AbsExists' = AbsExists
    BY <1>1, <1>2, <2>1
  <2>3. ASSUME LinearOk(addr, n)
        PROVE  read_bytes_linear(memory, offset(addr), n) = [i \in 0..(n - 1) |-> AbsBytes[Flat!Cell(addr, i)]]
    <3>1. ASSUME NEW i \in 0..(n - 1)
          PROVE  memory[(offset(addr) % U) + i] = AbsBytes[ByteAddr(addr, i)]
      <4>1. offset(addr) % U = addr - LinearBase /\ ByteAddr(addr, i) = addr + i
            /\ addr >= LinearBase /\ addr + n <= LinearBase + LinearSize
        BY <1>4, <2>3
      <4>2. n \in 1..8
        BY <1>0
      <4>3. addr + i \in Block /\ addr + i \in 0..(M - 1) /\ (addr + i) - LinearBase = (addr - LinearBase) + i
        BY <1>0, <4>1, <4>2
      <4> QED
        BY <1>1, <4>1, <4>3
    <3>2. [i \in 0..(n - 1) |-> AbsBytes[ByteAddr(addr, i)]] = [i \in 0..(n - 1) |-> AbsBytes[Flat!Cell(addr, i)]]
      BY Zenon DEF ByteAddr, Flat!Cell
    <3>3. read_bytes_linear(memory, offset(addr), n) = [i \in 0..(n - 1) |-> AbsBytes[ByteAddr(addr, i)]]
      BY <3>1 DEF read_bytes_linear
    <3> QED
      BY <3>2, <3>3
  <2> QED
    BY <1>3, <2>1, <2>2, <2>3, Zenon DEF Flat!ReadBytes, Flat!Access
<1>6. ASSUME NEW n \in AccessWidths, NEW v \in Values, LinearWrite(addr, n, v)
      PROVE  Flat!WriteBytes(addr, n, v)
  <2> DEFINE value == ValueAt(v)
  <2>1. /\ UNCHANGED <<kind, pages>>
        /\ asked' = [op |-> "write", addr |-> addr, n |-> n, v |-> v]
        /\ LinearOk(addr, n) =>
             memory' = write_bytes_linear(memory, offset(addr), n, value) /\ result' = NoBytes
        /\ ~LinearOk(addr, n) => memory' = memory /\ result' = Fault
    BY <1>6 DEF LinearWrite, Asked
  <2>2. n \in 1..8 /\ \A i \in 0..(n - 1) : value[i] \in Byte
    BY <1>0
  <2> HIDE DEF value
  <2>3. CASE LinearOk(addr, n)
    <3>1. \A a \in 0..(LinearSize - 1) :
            memory'[a] = IF a - (offset(addr) % U) \in 0..(n - 1) THEN value[a - (offset(addr) % U)] ELSE memory[a]
      <4> DEFINE off == offset(addr)
      <4>1. off \in Nat /\ memory' = write_bytes_linear(memory, off, n, value)
        BY <1>4, <2>1, <2>3
      <4>2. memory \in [0..(LinearSize - 1) -> Byte]
        BY <1>1
      <4> HIDE DEF off
      <4>3. \A a \in 0..(LinearSize - 1) :
              write_bytes_linear(memory, off, n, value)[a] =
                IF a - (off % U) \in 0..(n - 1) THEN value[a - (off % U)] ELSE memory[a]
        BY <2>2, <4>2 DEF write_bytes_linear
      <4> QED
        BY <4>1, <4>3, Zenon DEF off
    <3>2. ASSUME NEW a \in 0..(M - 1)
          PROVE  (IF a \in Block THEN memory'[a - LinearBase] ELSE 0)
                   = IF a \in Cells(addr, n) THEN value[Distance(addr, a)]
                     ELSE IF a \in Block THEN memory[a - LinearBase] ELSE 0
      <4>1. /\ offset(addr) % U = addr - LinearBase
            /\ addr >= LinearBase /\ addr + n <= LinearBase + LinearSize
            /\ a \in Cells(addr, n) <=> a - addr \in 0..(n - 1)
            /\ a \in Cells(addr, n) => Distance(addr, a) = a - addr
        BY <1>4, <2>3
      <4>2. CASE a \in Block
        <5> DEFINE b == a - LinearBase
        <5>1. b \in 0..(LinearSize - 1) /\ b - (addr - LinearBase) = a - addr
          BY <1>0, <4>2
        <5>2. memory'[b] = IF a - addr \in 0..(n - 1) THEN value[a - addr] ELSE memory[b]
          BY <3>1, <4>1, <5>1
        <5> HIDE DEF b
        <5> QED
          BY <4>1, <4>2, <5>2 DEF b
      <4>3. CASE a \notin Block
        <5>1. ~(a - addr \in 0..(n - 1))
          BY <1>0, <2>2, <4>1, <4>3
        <5> QED
          BY <4>1, <4>3, <5>1
      <4> QED
        BY <4>2, <4>3
    <3>3. AbsBytes' = [a \in 0..(M - 1) |-> IF a \in Block THEN memory'[a - LinearBase] ELSE 0]
      BY <1>2, <2>1
    <3>4. AbsBytes' = [a \in 0..(M - 1) |->
                         IF a \in Cells(addr, n) THEN value[Distance(addr, a)]
                         ELSE IF a \in Block THEN memory[a - LinearBase] ELSE 0]
      BY <3>2, <3>3
    <3>5. AbsBytes' = [a \in 0..(M - 1) |->
                         IF a \in Cells(addr, n) THEN value[Distance(addr, a)] ELSE AbsBytes[a]]
      BY <1>1, <3>4
    <3>6. AbsBytes' = [a \in 0..(M - 1) |->
                         IF a \in Flat!Cells(addr, n) THEN ValueAt(v)[(a - addr) % M] ELSE AbsBytes[a]]
      BY <1>3, <3>5, Zenon DEF Distance, value
    <3>7. AbsExists' = AbsExists
      BY <1>2, <2>1
    <3> QED
      BY <1>3, <2>1, <2>3, <3>6, <3>7, Zenon DEF Flat!WriteBytes, Flat!Access, NoBytes
  <2>4. CASE ~LinearOk(addr, n)
    <3>1. AbsBytes' = AbsBytes /\ AbsExists' = AbsExists
      BY <1>1, <1>2, <2>1, <2>4
    <3> QED
      BY <1>3, <2>1, <2>4, <3>1, Zenon DEF Flat!WriteBytes, Flat!Access
  <2> QED
    BY <2>3, <2>4
<1>7. CASE \E n \in AccessWidths : LinearRead(addr, n)
  BY <1>5, <1>7, Zenon DEF Flat!Next
<1>8. CASE \E n \in AccessWidths, v \in Values : LinearWrite(addr, n, v)
  BY <1>6, <1>8, Zenon DEF Flat!Next
<1> QED
  BY <1>7, <1>8

\* An integer is written to the tables as bytes.
LEMMA PagedPut ==
  ASSUME NEW ps, Paged(ps), NEW addr \in Int, NEW v \in Int, NEW n \in {4, 8}
  PROVE  Paged(Put(ps, addr, v, n))
<1> DEFINE value == ToBytes(v, n)
<1>1. ASSUME NEW i \in 0..(n - 1) PROVE value[i] \in Byte
  <2> DEFINE power == R ^ i
  <2>1. R \in Nat \ {0, 1} /\ Byte = 0..(R - 1)
    BY GuestMemoryAssumption
  <2>2. i \in 0..8
    OBVIOUS
  <2>3. power \in Nat \ {0}
    BY <2>2, PowersAssumption
  <2>4. value[i] = (v \div power) % R
    BY DEF ToBytes
  <2> HIDE DEF power, value
  <2>5. v \div power \in Int
    BY <2>3
  <2> QED
    BY <2>1, <2>4, <2>5
<1>2. n \in 1..8
  OBVIOUS
<1> HIDE DEF value
<1>3. Paged(write_bytes_at(ps, addr, n, value))
  BY <1>1, <1>2, PagedWrite
<1> QED
  BY <1>3 DEF Put, value

\* Powers of R, by name.
LEMMA Powers ==
  /\ R \in Nat \ {0, 1} /\ R ^ 2 \in Nat \ {0} /\ R ^ 3 \in Nat \ {0}
  /\ \A level \in 1..3 : R ^ (2 * (level - 1)) \in Nat \ {0}
<1>1. R \in Nat \ {0, 1}
  BY GuestMemoryAssumption
<1>2. 2 \in 0..8 /\ 3 \in 0..8
  OBVIOUS
<1>3. ASSUME NEW level \in 1..3 PROVE R ^ (2 * (level - 1)) \in Nat \ {0}
  <2> DEFINE k == 2 * (level - 1)
  <2>1. k \in 0..8
    OBVIOUS
  <2> HIDE DEF k
  <2>2. R ^ k \in Nat \ {0}
    BY <2>1, PowersAssumption
  <2> QED
    BY <2>2 DEF k
<1> QED
  BY <1>1, <1>2, <1>3, PowersAssumption

\* Setting an entry of a table.
LEMMA PagedEntry ==
  ASSUME NEW ps, Paged(ps), table \in Tables, NEW level \in 1..3, NEW vp \in VirtualPages, NEW v \in Int
  PROVE  Paged(SetEntry(ps, level, vp, v))
<1> DEFINE lvl == IF table.levels = 2 THEN 2 ELSE level
           at == TableAt(table, lvl, vp)
           power == R ^ (2 * (level - 1))
           square == R ^ 2
           index == IndexAt(table, level, vp)
           n == table.pte_bytes
<1>1. /\ n \in {4, 8} /\ vp \in Nat /\ lvl \in 1..3
  BY TableAssumption
<1>2. at \in Nat
  BY <1>1, TableAssumption
<1>3. power \in Nat \ {0} /\ square \in Nat \ {0}
  BY Powers
<1>4. index = IF table.levels = 2 THEN vp ELSE (vp \div power) % square
  BY DEF IndexAt
<1> HIDE DEF power, square, index, n, at
<1>5. index \in Int
  BY <1>1, <1>3, <1>4
<1>6. at + index * n \in Int
  BY <1>1, <1>2, <1>5
<1> DEFINE addr == at + index * n
<1> HIDE DEF addr
<1>7. addr \in Int
  BY <1>6 DEF addr
<1>8. Paged(Put(ps, addr, v, n))
  BY <1>1, <1>7, PagedPut
<1> QED
  BY <1>8, Zenon DEF SetEntry, EntryAddr, addr, at, index, n, lvl

\* Setting the last entry, and that of the security directory.
LEMMA PagedLeaf ==
  ASSUME NEW ps, Paged(ps), table \in Tables, NEW vp \in VirtualPages, NEW pp \in Physical
  PROVE  Paged(SetLeaf(ps, vp, pp))
<1> DEFINE cube == R ^ 3
           square == R ^ 2
           high == HighPart(table, pp)
           sec == SecIdx(table, pp)
           pte == Pte(table, pp)
           leaf == SetEntry(ps, 1, vp, pte)
           addr == SecAddr(table, pp)
           entry == SecEntry(table, pp)
<1>1. /\ pp \in Int /\ security_dir_vaddr \in Int
      /\ R \in Nat \ {0, 1} /\ cube \in Nat \ {0} /\ square \in Nat \ {0}
  BY TableAssumption, Powers
<1>2. /\ high = IF Wide(table) THEN 0 ELSE pp \div cube
      /\ sec = IF Wide(table) THEN pp % square ELSE high
      /\ pte = IF Wide(table) THEN pp * square + sec ELSE (pp % cube) * R + sec
      /\ entry = high * (IF Wide(table) THEN 1 ELSE cube)
      /\ addr = security_dir_vaddr + sec * 4
  BY Zenon DEF HighPart, SecIdx, Pte, SecEntry, SecAddr
<1> HIDE DEF cube, square, high, sec, pte, entry, addr
<1>3. high \in Int /\ sec \in Int /\ pte \in Int
  BY <1>1, <1>2
<1>4. entry \in Int /\ addr \in Int
  BY <1>1, <1>2, <1>3
<1>5. Paged(leaf)
  <2>1. 1 \in 1..3
    OBVIOUS
  <2> QED
    BY <1>3, <2>1, PagedEntry
<1> HIDE DEF leaf
<1>6. 4 \in {4, 8}
  OBVIOUS
<1>7. Paged(Put(leaf, addr, entry, 4))
  BY <1>4, <1>5, <1>6, PagedPut
<1> QED
  BY <1>7, Zenon DEF SetLeaf, leaf, addr, pte, entry

\* A page table is mapped and unmapped by bytes too.
LEMMA TableStep ==
  ASSUME MemoryInv, TableInv, kind = "tables",
         \/ \E vp \in VirtualPages, pp \in Physical : Map(vp, pp)
         \/ \E vp \in VirtualPages : Unmap(vp)
  PROVE  MemoryInv' /\ [Flat!Next]_(Flat!vars)
<1>1. table \in Tables /\ Paged(pages)
  BY DEF TableInv, MemoryInv
<1>2. ASSUME Paged(pages'), UNCHANGED <<kind, memory, result, asked>>
      PROVE  MemoryInv' /\ [Flat!Next]_(Flat!vars)
  <2>1. MemoryInv'
    BY <1>2 DEF MemoryInv, Paged
  <2>2. UNCHANGED Flat!vars
    BY <1>2 DEF AbsBytes, AbsExists, Flat!vars
  <2> QED
    BY <2>1, <2>2
<1>3. ASSUME NEW vp \in VirtualPages, NEW pp \in Physical, Map(vp, pp)
      PROVE  Paged(pages')
  <2> DEFINE v3 == TableAt(table, 2, vp)
             v2 == TableAt(table, 1, vp)
             upper == SetEntry(pages, 3, vp, v3)
             both == SetEntry(upper, 2, vp, v2)
  <2>1. pages' = IF table.levels = 2 THEN SetLeaf(pages, vp, pp) ELSE SetLeaf(both, vp, pp)
    BY <1>3 DEF Map
  <2>2. 1 \in 1..3 /\ 2 \in 1..3 /\ 3 \in 1..3
    OBVIOUS
  <2>3. v3 \in Int /\ v2 \in Int
    BY <1>1, <2>2, TableAssumption
  <2> HIDE DEF v3, v2
  <2>4. Paged(upper)
    BY <1>1, <2>2, <2>3, PagedEntry
  <2> HIDE DEF upper
  <2>5. Paged(both)
    BY <1>1, <2>2, <2>3, <2>4, PagedEntry
  <2> HIDE DEF both
  <2>6. Paged(SetLeaf(pages, vp, pp)) /\ Paged(SetLeaf(both, vp, pp))
    BY <1>1, <2>5, PagedLeaf
  <2> QED
    BY <2>1, <2>6
<1>4. ASSUME NEW vp \in VirtualPages, Unmap(vp)
      PROVE  Paged(pages')
  <2>1. pages' = SetEntry(pages, 1, vp, 0)
    BY <1>4 DEF Unmap
  <2>2. 1 \in 1..3 /\ 0 \in Int
    OBVIOUS
  <2>3. Paged(SetEntry(pages, 1, vp, 0))
    BY <1>1, <2>2, PagedEntry
  <2> QED
    BY <2>1, <2>3
<1>5. CASE \E vp \in VirtualPages, pp \in Physical : Map(vp, pp)
  <2>1. PICK vp \in VirtualPages, pp \in Physical : Map(vp, pp)
    BY <1>5
  <2>2. UNCHANGED <<kind, memory, result, asked>>
    BY <2>1 DEF Map
  <2> QED
    BY <1>2, <1>3, <2>1, <2>2
<1>6. CASE \E vp \in VirtualPages : Unmap(vp)
  <2>1. PICK vp \in VirtualPages : Unmap(vp)
    BY <1>6
  <2>2. UNCHANGED <<kind, memory, result, asked>>
    BY <2>1 DEF Unmap
  <2> QED
    BY <1>2, <1>4, <2>1, <2>2
<1> QED
  BY <1>5, <1>6

\* A step of any of the memories.
LEMMA MemoryStep ==
  ASSUME MemoryInv, TableInv, TableNext
  PROVE  MemoryInv' /\ (M <= U => [Flat!Next]_(Flat!vars))
<1>1. /\ \A n, addr : LegacyRead(addr, n) => kind = "legacy"
      /\ \A n, addr : LinearRead(addr, n) => kind = "linear"
      /\ \A n, addr, v : LegacyWrite(addr, n, v) => kind = "legacy"
      /\ \A n, addr, v : LinearWrite(addr, n, v) => kind = "linear"
      /\ \A addr, v : GetPage(addr, v) => kind = "legacy"
      /\ \A vp, pp : Map(vp, pp) => kind = "tables"
      /\ \A vp : Unmap(vp) => kind = "tables"
  BY DEF LegacyRead, LinearRead, LegacyWrite, LinearWrite, GetPage, Map, Unmap
<1>2. CASE MemoryNext
  <2>1. PICK addr \in Accesses :
          \/ \E n \in AccessWidths : LegacyRead(addr, n) \/ LinearRead(addr, n)
          \/ \E n \in AccessWidths, v \in Values : LegacyWrite(addr, n, v) \/ LinearWrite(addr, n, v)
          \/ \E v \in Values : GetPage(addr, v)
    BY <1>2 DEF MemoryNext
  <2>2. CASE kind = "legacy"
    <3>1. \/ \E n \in AccessWidths : LegacyRead(addr, n)
          \/ \E n \in AccessWidths, v \in Values : LegacyWrite(addr, n, v)
          \/ \E v \in Values : GetPage(addr, v)
      BY <1>1, <2>1, <2>2
    <3> QED
      BY <2>2, <3>1, LegacyStep
  <2>3. CASE kind = "linear"
    <3>1. \/ \E n \in AccessWidths : LinearRead(addr, n)
          \/ \E n \in AccessWidths, v \in Values : LinearWrite(addr, n, v)
      BY <1>1, <2>1, <2>3
    <3> QED
      BY <2>3, <3>1, LinearStep, LinearTyped
  <2> QED
    BY <1>1, <2>1, <2>2, <2>3
<1>3. CASE ~MemoryNext
  <2>1. \/ \E vp \in VirtualPages, pp \in Physical : Map(vp, pp)
        \/ \E vp \in VirtualPages : Unmap(vp)
    BY <1>3 DEF TableNext
  <2> QED
    BY <1>1, <2>1, TableStep
<1> QED
  BY <1>2, <1>3

\* The rest of the type invariant, whatever is asked.
LEMMA MemoryCounts ==
  ASSUME writes \in 0..MaxWrites, TableInv, TableNext
  PROVE  kind' = kind /\ writes' \in 0..MaxWrites /\ TableInv'
<1>1. \/ writes' = writes
      \/ writes < MaxWrites /\ writes' = writes + 1
  BY DEF TableNext, MemoryNext, Map, Unmap, LegacyRead, LinearRead, LegacyWrite, LinearWrite, GetPage, CountWrite
<1>2. kind' = kind /\ table' = table
  BY DEF TableNext, MemoryNext, Map, Unmap, LegacyRead, LinearRead, LegacyWrite, LinearWrite, GetPage, tableVars
<1>3. MaxWrites \in Nat
  BY GuestMemoryAssumption
<1> QED
  BY <1>1, <1>2, <1>3 DEF TableInv
\* What a guest memory is, in any run of recompiled code.
MemoryPart == kind \in Kinds /\ MemoryInv /\ TableInv /\ writes \in 0..MaxWrites

\* MemoryPart is the memories' share of the type invariant.
LEMMA MemoryPartIs == MemoryPart => MemoryTypeOK
  BY DEF MemoryPart, MemoryTypeOK, MemoryInv, Paged

\* The composition starts with no memory in use, or with a new one.
LEMMA MemoryPartStarts ==
  ASSUME MCInit
  PROVE  MemoryPart /\ Flat!Init
<1>1. TableInit
  BY DEF MCInit, NoMemory
<1>2. kind \in Kinds /\ TableInv
  BY <1>1 DEF TableInit, MemoryInit, TableInv
<1> QED
  BY <1>1, <1>2, MemoryStarts DEF TableInit, MemoryPart

\* A step of a memory, or a step that is not about one.
LEMMA MemoryPartSteps ==
  ASSUME MemoryPart, [MCNext]_<<part, vars, memoryVars, tableVars, wasiVars>>
  PROVE  /\ MemoryPart'
         /\ M <= U => [part = "memory" => [Flat!Next]_(Flat!vars)]_memoryVars
<1>1. CASE TablesNext
  <2>1. TableNext
    BY <1>1 DEF TablesNext
  <2>2. MemoryInv' /\ (M <= U => [Flat!Next]_(Flat!vars))
    BY <2>1, MemoryStep DEF MemoryPart
  <2>3. kind' = kind /\ writes' \in 0..MaxWrites /\ TableInv'
    BY <2>1, MemoryCounts DEF MemoryPart
  <2> QED
    BY <2>2, <2>3 DEF MemoryPart
<1>2. CASE UNCHANGED <<memoryVars, tableVars>>
  BY <1>2 DEF memoryVars, tableVars, MemoryPart, MemoryInv, TableInv, Paged
<1> QED
  BY <1>1, <1>2 DEF MCNext, NativeNext, WaxNext, JsNext, CallsNext, CodeStays

\* A behaviour of the composition keeps the invariant of its memory.
LEMMA MemoryPartInvariant == MCSpec => []MemoryPart
  BY MemoryPartStarts, MemoryPartSteps, PTL DEF MCSpec

\* Reads of a guest memory return the bytes last written there, through page
\* boundaries, around the last address and at the bounds of a block, for pages
\* and memories of any size (GuestMemory for LegacyOnDemand and LinearHost,
\* backends.rs:108-125 and 302-318).  The hypothesis is a host of 64 bits: an
\* offset is not cut when it becomes a usize.
THEOREM MemoriesAreFlat ==
  ASSUME M <= U
  PROVE  MCSpec => MCImplementsFlatMemory
<1>1. MemoryPart /\ [MCNext]_<<part, vars, memoryVars, tableVars, wasiVars>>
        => [part = "memory" => [Flat!Next]_(Flat!vars)]_memoryVars
  BY MemoryPartSteps
<1> QED
  BY <1>1, MemoryPartStarts, MemoryPartInvariant, PTL DEF MCSpec, MCImplementsFlatMemory
-----------------------------------------------------------------------------
(***************************************************************************)
(* Page tables                                                             *)
(***************************************************************************)
\* Dividing by a product is dividing twice.
LEMMA DivideTwice ==
  ASSUME NEW v \in Nat, NEW a \in Nat \ {0}, NEW b \in Nat \ {0}
  PROVE  /\ (v \div a) \div b = v \div (a * b)
         /\ v % (a * b) = (v % a) + ((v \div a) % b) * a
<1> DEFINE q == v \div a
           r == v % a
           q2 == q \div b
           r2 == q % b
           ab == a * b
<1>1. q \in Nat /\ r \in 0..(a - 1) /\ v = a * q + r
  OBVIOUS
<1> HIDE DEF q, r
<1>2. q2 \in Nat /\ r2 \in 0..(b - 1) /\ q = b * q2 + r2
  BY <1>1
<1> HIDE DEF q2, r2
<1>3. a * r2 + r \in 0..(ab - 1) /\ ab \in Nat \ {0}
  <2>1. a * r2 <= a * (b - 1)
    BY <1>2
  <2>2. a * (b - 1) = ab - a /\ ab \in Nat \ {0} /\ a * r2 \in Nat
    BY <1>2
  <2> HIDE DEF ab
  <2> QED
    BY <1>1, <2>1, <2>2
<1>4. v = ab * q2 + (a * r2 + r)
  <2>1. a * q = a * (b * q2) + a * r2
    BY <1>1, <1>2
  <2>2. a * (b * q2) = ab * q2
    BY <1>2
  <2> DEFINE x == a * q
             y == a * r2
             z == ab * q2
  <2>3. x = z + y /\ v = x + r /\ y \in Nat /\ z \in Nat
    BY <1>1, <1>2, <1>3, <2>1, <2>2
  <2> HIDE DEF x, y, z
  <2>4. v = z + (y + r)
    BY <1>1, <2>3
  <2> QED
    BY <2>4 DEF y, z
<1> DEFINE s == a * r2 + r
<1> HIDE DEF ab
<1>10. s \in 0..(ab - 1) /\ v = ab * q2 + s
  BY <1>3, <1>4
<1> HIDE DEF s
<1>5. v \div ab = q2 /\ v % ab = s
  <2>1. (ab * q2 + s) \div ab = q2 /\ (ab * q2 + s) % ab = s
    BY <1>2, <1>3, <1>10
  <2> QED
    BY <1>10, <2>1
<1>6. s = r + r2 * a
  BY <1>1, <1>2 DEF s
<1> QED
  BY <1>5, <1>6 DEF q, r, q2, r2, ab

\* What the bytes of a number add up to.
LEMMA BytesAddUp ==
  ASSUME NEW v \in Nat, NEW n \in {4, 8}, v < R ^ n, NEW b,
         \A i \in 0..(n - 1) : b[i] = (v \div R ^ i) % R
  PROVE  ToInt(b, n) = v
<1> DEFINE P(k) == R ^ k
           G(k) == v % P(k)
           D(f, k) == IF k = 0 THEN 0 ELSE f[k - 1] + b[k - 1] * R ^ (k - 1)
           int[k \in 0..n] == IF k = 0 THEN 0 ELSE int[k - 1] + b[k - 1] * R ^ (k - 1)
           g == [k \in 0..n |-> G(k)]
<1>1. ToInt(b, n) = int[n]
  BY DEF ToInt
<1>2. /\ R \in Nat \ {0} /\ \A k \in 0..8 : P(k) \in Nat \ {0}
      /\ P(0) = 1 /\ \A k \in 0..7 : P(k + 1) = P(k) * R
      /\ \A i \in 0..(n - 1) : b[i] = (v \div P(i)) % R
      /\ v < P(n)
  BY GuestMemoryAssumption, PowersAssumption, Zenon
<1>3. \A f, k : D(f, k) = IF k = 0 THEN 0 ELSE f[k - 1] + b[k - 1] * P(k - 1)
  OBVIOUS
<1> HIDE DEF P, D
<1>4. G(0) = 0 /\ G(n) = v
  <2>1. n \in 0..8
    OBVIOUS
  <2>2. P(n) \in Nat \ {0}
    BY <1>2, <2>1
  <2>3. v % P(n) = v
    <3> DEFINE p == P(n)
    <3>1. p \in Nat \ {0} /\ v < p
      BY <1>2, <2>2
    <3> HIDE DEF p
    <3>2. v % p = v
      BY ONLY v \in Nat, <3>1
    <3> QED
      BY <3>2 DEF p
  <2>4. v % 1 = 0
    OBVIOUS
  <2> QED
    BY <1>2, <2>3, <2>4
<1>5. ASSUME NEW k \in 0..(n - 1) PROVE G(k + 1) = G(k) + b[k] * P(k)
  <2>1. k \in 0..8 /\ k \in 0..7
    OBVIOUS
  <2>2. P(k) \in Nat \ {0} /\ P(k + 1) = P(k) * R /\ b[k] = (v \div P(k)) % R
    BY <1>2, <2>1
  <2>3. v % (P(k) * R) = (v % P(k)) + ((v \div P(k)) % R) * P(k)
    BY <1>2, <2>2, DivideTwice
  <2> QED
    BY <2>2, <2>3
<1> HIDE DEF G
<1>6. g = [k \in 0..n |-> D(g, k)]
  <2>1. ASSUME NEW k \in 0..n PROVE g[k] = D(g, k)
    <3>1. CASE k = 0
      BY <1>3, <1>4, <3>1
    <3>2. CASE k # 0
      <4> DEFINE j == k - 1
      <4>1. j \in 0..(n - 1) /\ j \in 0..n /\ j + 1 = k
        BY <3>2
      <4>2. G(j + 1) = G(j) + b[j] * P(j)
        BY <1>5, <4>1
      <4>3. D(g, k) = g[j] + b[j] * P(j)
        BY <1>3, <3>2
      <4> HIDE DEF j
      <4> QED
        BY <4>1, <4>2, <4>3
    <3> QED
      BY <3>1, <3>2
  <2> QED
    BY <2>1
<1>7. \E f : f = [k \in 0..n |-> D(f, k)]
  <2> HIDE DEF g
  <2> QED
    BY <1>6
<1>8. int = [k \in 0..n |-> D(int, k)]
  BY <1>7, Zenon DEF D
<1> HIDE DEF int
<1>9. int[0] = G(0) /\ \A k \in 0..(n - 1) : int[k] = G(k) => int[k + 1] = G(k + 1)
  <2>1. int[0] = G(0)
    <3>1. 0 \in 0..n
      OBVIOUS
    <3>2. int[0] = D(int, 0)
      BY <1>8, <3>1
    <3> QED
      BY <1>3, <1>4, <3>2
  <2>2. ASSUME NEW k \in 0..(n - 1), int[k] = G(k) PROVE int[k + 1] = G(k + 1)
    <3>1. k + 1 \in 0..n /\ k + 1 # 0 /\ (k + 1) - 1 = k
      OBVIOUS
    <3>2. int[k + 1] = D(int, k + 1)
      BY <1>8, <3>1
    <3>3. D(int, k + 1) = int[k] + b[k] * P(k)
      BY <1>3, <3>1
    <3> QED
      BY <1>5, <2>2, <3>2, <3>3
  <2> QED
    BY <2>1, <2>2
<1>10. int[n] = G(n)
  <2>1. \A k \in 0..3 : k \in 0..(n - 1)
    OBVIOUS
  <2>2. int[1] = G(1) /\ int[2] = G(2) /\ int[3] = G(3) /\ int[4] = G(4)
    <3>1. int[0 + 1] = G(0 + 1)
      BY <1>9, <2>1
    <3>2. int[1 + 1] = G(1 + 1)
      BY <1>9, <2>1, <3>1
    <3>3. int[2 + 1] = G(2 + 1)
      BY <1>9, <2>1, <3>2
    <3>4. int[3 + 1] = G(3 + 1)
      BY <1>9, <2>1, <3>3
    <3> QED
      BY <3>1, <3>2, <3>3, <3>4
  <2>3. CASE n = 8
    <3>1. \A k \in 4..7 : k \in 0..(n - 1)
      BY <2>3
    <3>2. int[4 + 1] = G(4 + 1)
      BY <1>9, <2>2, <3>1
    <3>3. int[5 + 1] = G(5 + 1)
      BY <1>9, <3>1, <3>2
    <3>4. int[6 + 1] = G(6 + 1)
      BY <1>9, <3>1, <3>3
    <3>5. int[7 + 1] = G(7 + 1)
      BY <1>9, <3>1, <3>4
    <3> QED
      BY <2>3, <3>5
  <2> QED
    BY <2>2, <2>3
<1> QED
  BY <1>1, <1>4, <1>10

\* The bytes of a number are at an address.
Holds(ps, addr, n, v) == \A i \in 0..(n - 1) : ByteAt(ps, ByteAddr(addr, i)) = (v \div R ^ i) % R

\* What is held is read.
LEMMA ReadsWhatIsHeld ==
  ASSUME NEW ps, NEW addr \in 0..(M - 1), NEW n \in {4, 8}, NEW v \in Nat, v < R ^ n,
         Holds(ps, addr, n, v)
  PROVE  ReadInt(ps, addr, n) = v
<1> DEFINE b == read_bytes_at(ps, addr, n)
<1>1. addr % M = addr
  BY GuestMemoryAssumption
<1>2. ASSUME NEW i \in 0..(n - 1) PROVE b[i] = (v \div R ^ i) % R
  <2>1. b[i] = ByteAt(ps, ByteAddr(addr, i))
    BY DEF read_bytes_at, ByteAt
  <2> QED
    BY <2>1 DEF Holds
<1> HIDE DEF b
<1>3. ToInt(b, n) = v
  BY <1>2, BytesAddUp
<1> QED
  BY <1>1, <1>3, Zenon DEF ReadInt, b

\* What is put at an address is held there, and what is held elsewhere still is.
LEMMA PutHolds ==
  ASSUME NEW ps, Paged(ps), NEW addr \in 0..(M - 1), NEW n \in {4, 8}, NEW v \in Int,
         NEW at \in 0..(M - 1), NEW k \in {4, 8}, NEW w,
         \/ at = addr /\ k = n /\ w = v
         \/ Holds(ps, at, k, w) /\ Cells(addr, n) \cap Cells(at, k) = {}
  PROVE  Holds(Put(ps, addr, v, n), at, k, w)
<1> DEFINE value == ToBytes(v, n)
           new == Put(ps, addr, v, n)
<1>1. n \in 1..8 /\ k \in 1..8
  OBVIOUS
<1>2. \A i \in 0..(n - 1) : value[i] = (v \div R ^ i) % R
  BY DEF ToBytes
<1>3. \A i \in 0..(n - 1) : value[i] \in Byte
  <2> SUFFICES ASSUME NEW i \in 0..(n - 1) PROVE value[i] \in Byte
    OBVIOUS
  <2> DEFINE power == R ^ i
  <2>1. R \in Nat \ {0, 1} /\ Byte = 0..(R - 1)
    BY GuestMemoryAssumption
  <2>2. i \in 0..8
    OBVIOUS
  <2>3. power \in Nat \ {0}
    BY <2>2, PowersAssumption
  <2>4. value[i] = (v \div power) % R
    BY <1>2
  <2> HIDE DEF power, value
  <2>5. v \div power \in Int
    BY <2>3
  <2> QED
    BY <2>1, <2>4, <2>5
<1> HIDE DEF value
<1>4. Written(new, ps, addr, n, value)
  <2>1. Written(write_bytes_at(ps, addr, n, value), ps, addr, n, value)
    BY <1>1, <1>3, WriteBytes
  <2> QED
    BY <2>1 DEF Put, value
<1> HIDE DEF new
<1>5. ASSUME NEW i \in 0..(k - 1)
      PROVE  ByteAt(new, ByteAddr(at, i)) = (w \div R ^ i) % R
  <2> DEFINE a == ByteAddr(at, i)
  <2>1. a \in Cells(at, k) /\ a \in 0..(M - 1)
    <3>1. \A j \in 0..(k - 1) : ByteAddr(at, j) \in 0..(M - 1)
      BY <1>1, Around
    <3> QED
      BY <3>1 DEF Cells
  <2>2. CASE at = addr /\ k = n /\ w = v
    <3>1. Distance(addr, a) = i
      <4>1. \A j \in 0..(n - 1) : ByteAddr(addr, j) = a => Distance(addr, a) = j
        BY <1>1, <2>1, Around
      <4> QED
        BY <2>2, <4>1
    <3>2. ByteAt(new, a) = value[i]
      BY <1>4, <2>1, <2>2, <3>1 DEF Written
    <3> QED
      BY <1>2, <2>2, <3>2
  <2>3. CASE Holds(ps, at, k, w) /\ Cells(addr, n) \cap Cells(at, k) = {}
    <3>1. a \notin Cells(addr, n)
      BY <2>1, <2>3
    <3>2. ByteAt(new, a) = ByteAt(ps, a)
      BY <1>4, <2>1, <3>1 DEF Written
    <3> QED
      BY <2>3, <3>2 DEF Holds
  <2> QED
    BY <2>2, <2>3
<1> QED
  BY <1>5 DEF Holds, new

\* A quotient and a remainder.
LEMMA Divided ==
  ASSUME NEW a \in Nat \ {0}, NEW q \in Nat, NEW r \in 0..(a - 1)
  PROVE  (q * a + r) \div a = q /\ (q * a + r) % a = r
<1>1. (a * q + r) \div a = q /\ (a * q + r) % a = r
  OBVIOUS
<1>2. a * q = q * a
  OBVIOUS
<1> QED
  BY <1>1, <1>2

\* The powers that the tables are made of.
LEMMA PowerProducts ==
  /\ R \in Nat \ {0} /\ R ^ 2 \in Nat \ {0} /\ R ^ 3 \in Nat \ {0} /\ R ^ 4 \in Nat \ {0}
  /\ R ^ 6 \in Nat \ {0} /\ R ^ 8 \in Nat \ {0} /\ R ^ 0 = 1
  /\ R ^ 4 = R ^ 3 * R /\ R ^ 4 = R ^ 2 * R ^ 2 /\ R ^ 6 = R ^ 2 * R ^ 4 /\ R ^ 6 = R ^ 3 * R ^ 3
  /\ R ^ 8 = R ^ 6 * R ^ 2 /\ R ^ 4 <= R ^ 6 /\ R ^ 4 <= R ^ 8
<1> DEFINE P(k) == R ^ k
<1>1. /\ R \in Nat \ {0} /\ \A k \in 0..8 : P(k) \in Nat \ {0}
      /\ P(0) = 1 /\ \A k \in 0..7 : P(k + 1) = P(k) * R
  BY GuestMemoryAssumption, PowersAssumption, Zenon
<1> HIDE DEF P
<1>2. /\ P(1) = P(0) * R /\ P(2) = P(1) * R /\ P(3) = P(2) * R /\ P(4) = P(3) * R
      /\ P(5) = P(4) * R /\ P(6) = P(5) * R /\ P(7) = P(6) * R /\ P(8) = P(7) * R
  <2>1. /\ 0 \in 0..7 /\ 1 \in 0..7 /\ 2 \in 0..7 /\ 3 \in 0..7 /\ 4 \in 0..7 /\ 5 \in 0..7
        /\ 6 \in 0..7 /\ 7 \in 0..7
    OBVIOUS
  <2>2. /\ 0 + 1 = 1 /\ 1 + 1 = 2 /\ 2 + 1 = 3 /\ 3 + 1 = 4 /\ 4 + 1 = 5 /\ 5 + 1 = 6
        /\ 6 + 1 = 7 /\ 7 + 1 = 8
    OBVIOUS
  <2>3. \A k \in 0..7 : P(k + 1) = P(k) * R
    BY <1>1
  <2> QED
    BY ONLY <2>1, <2>2, <2>3
<1>3. P(0) \in Nat \ {0} /\ P(1) \in Nat \ {0} /\ P(2) \in Nat \ {0} /\ P(3) \in Nat \ {0}
      /\ P(4) \in Nat \ {0} /\ P(5) \in Nat \ {0} /\ P(6) \in Nat \ {0} /\ P(7) \in Nat \ {0}
      /\ P(8) \in Nat \ {0}
  BY <1>1
<1>4. P(0) = 1 /\ R \in Nat \ {0}
  BY <1>1
<1>5. P(1) = R /\ P(2) = R * R
  BY ONLY <1>2, <1>4
<1>6. P(3) = P(2) * R /\ P(4) = P(3) * R /\ P(4) = P(2) * P(2)
  <2>1. P(2) * R * R = P(2) * (R * R)
    BY ONLY <1>3, <1>4
  <2> QED
    BY ONLY <1>2, <1>5, <2>1
<1>7. P(6) = P(4) * P(2) /\ P(8) = P(6) * P(2)
  <2>1. P(4) * R * R = P(4) * (R * R) /\ P(6) * R * R = P(6) * (R * R)
    BY ONLY <1>3, <1>4
  <2> QED
    BY ONLY <1>2, <1>5, <2>1
<1>8. P(6) = P(2) * P(4) /\ P(6) = P(3) * P(3)
  <2>1. P(4) * P(2) = P(2) * P(4)
    BY ONLY <1>3
  <2>2. P(3) * (P(2) * R) = (P(3) * R) * P(2)
    BY ONLY <1>3, <1>4
  <2> QED
    BY ONLY <1>6, <1>7, <2>1, <2>2
<1>9. P(4) <= P(6) /\ P(4) <= P(8)
  <2>1. \A x, y \in Nat \ {0} : x <= x * y
    OBVIOUS
  <2>2. P(4) <= P(4) * P(2) /\ P(6) <= P(6) * P(2)
    BY ONLY <1>3, <2>1
  <2> QED
    BY ONLY <1>3, <1>7, <2>2
<1> QED
  BY <1>3, <1>4, <1>6, <1>7, <1>8, <1>9 DEF P

\* A physical page fits an entry.
Fits(t, pp) == pp < IF Wide(t) THEN R ^ 6 ELSE R ^ 4

\* What an entry of a level holds.
EntryValue(t, k, vp, pp) == IF k = 1 THEN Pte(t, pp) ELSE TableAt(t, k - 1, vp)

\* The numbers in the tables, and that they fit.
LEMMA EntryNumbers ==
  ASSUME NEW t \in Tables, NEW pp \in Physical, Fits(t, pp)
  PROVE  /\ Pte(t, pp) \in Nat /\ Pte(t, pp) < R ^ t.pte_bytes
         /\ SecEntry(t, pp) \in Nat /\ SecEntry(t, pp) < R ^ 4
         /\ pp \in Nat /\ pp < R ^ 6
<1>1. pp \in Nat /\ t.pte_bytes \in {4, 8} /\ (Wide(t) <=> t.pte_bytes = 8)
  BY TableAssumption DEF Wide
<1>2. CASE Wide(t)
  <2> DEFINE s == R ^ 2
             u == R ^ 6
             w == R ^ 8
             z == R ^ 4
  <2>1. s \in Nat \ {0} /\ u \in Nat \ {0} /\ w = u * s /\ z \in Nat \ {0}
    BY PowerProducts
  <2>2. pp < u
    BY <1>2 DEF Fits
  <2>3. Pte(t, pp) = pp * s + (pp % s) /\ SecEntry(t, pp) = 0 * 1
    BY <1>2 DEF Pte, SecIdx, SecEntry, HighPart
  <2> HIDE DEF s, u, w, z
  <2>4. pp % s \in 0..(s - 1)
    BY <1>1, <2>1
  <2>5. (pp + 1) * s <= u * s /\ (pp + 1) * s = pp * s + s /\ pp * s \in Nat /\ u * s \in Nat
    BY <1>1, <2>1, <2>2
  <2>6. pp * s + (pp % s) \in Nat /\ pp * s + (pp % s) < u * s
    BY <2>1, <2>4, <2>5
  <2> QED
    BY <1>1, <1>2, <2>1, <2>2, <2>3, <2>6 DEF u, w, z
<1>3. CASE ~Wide(t)
  <2> DEFINE c == R ^ 3
             u == R ^ 6
             z == R ^ 4
             h == pp \div c
             l == pp % c
  <2>1. R \in Nat \ {0} /\ c \in Nat \ {0} /\ u \in Nat \ {0} /\ z = c * R /\ z \in Nat \ {0} /\ z <= u
    BY PowerProducts
  <2>2. pp < z
    BY <1>3 DEF Fits
  <2>3. Pte(t, pp) = l * R + h /\ SecEntry(t, pp) = h * c
    BY <1>3 DEF Pte, SecIdx, SecEntry, HighPart
  <2> HIDE DEF c, u, z
  <2>4. h \in Nat /\ l \in 0..(c - 1) /\ pp = c * h + l
    BY <1>1, <2>1
  <2> HIDE DEF h, l
  <2>5. h < R
    <3>1. ASSUME R <= h PROVE FALSE
      <4>1. c * R <= c * h
        BY <2>1, <2>4, <3>1
      <4>2. c * h \in Nat /\ c * R \in Nat
        BY <2>1, <2>4
      <4> QED
        BY <1>1, <2>1, <2>2, <2>4, <4>1, <4>2
    <3> QED
      BY <2>1, <2>4, <3>1
  <2>6. l * R + h \in Nat /\ l * R + h < c * R
    <3>1. (l + 1) * R <= c * R /\ (l + 1) * R = l * R + R /\ l * R \in Nat /\ c * R \in Nat
      BY <2>1, <2>4
    <3> QED
      BY <2>1, <2>4, <2>5, <3>1
  <2>7. h * c \in Nat /\ h * c < c * R
    <3>1. (h + 1) * c <= R * c /\ (h + 1) * c = h * c + c /\ h * c \in Nat /\ R * c = c * R /\ R * c \in Nat
      BY <2>1, <2>4, <2>5
    <3> QED
      BY <2>1, <3>1
  <2>8. Pte(t, pp) \in Nat /\ Pte(t, pp) < z /\ SecEntry(t, pp) \in Nat /\ SecEntry(t, pp) < z /\ pp < u
    BY <1>1, <2>1, <2>2, <2>3, <2>6, <2>7
  <2> QED
    BY <1>1, <1>3, <2>8 DEF u, z
<1> QED
  BY <1>2, <1>3

\* The entries of a virtual page, and that of the directory.
HoldsEntry(ps, k, vp, pp) ==
  Holds(ps, EntryAddr(table, k, vp), table.pte_bytes, EntryValue(table, k, vp, pp))

HoldsSec(ps, pp) == Holds(ps, SecAddr(table, pp), 4, SecEntry(table, pp))

Maps(ps, vp, pp) == (\A k \in Levels(table) : HoldsEntry(ps, k, vp, pp)) /\ HoldsSec(ps, pp)

\* An entry that is set keeps the others, and those that it is.
LEMMA EntryKept ==
  ASSUME table \in Tables, NEW ps, Paged(ps), NEW k \in Levels(table), NEW l \in Levels(table),
         NEW vp \in VirtualPages, NEW q \in VirtualPages, NEW v \in Int, NEW pp,
         \/ k = l /\ q = vp /\ v = EntryValue(table, k, q, pp)
         \/ /\ HoldsEntry(ps, k, q, pp)
            /\ k = l => IF k = 1 THEN q # vp ELSE v = TableAt(table, k - 1, vp)
  PROVE  HoldsEntry(SetEntry(ps, l, vp, v), k, q, pp)
<1> DEFINE n == table.pte_bytes
           a == EntryAddr(table, l, vp)
           at == EntryAddr(table, k, q)
           w == EntryValue(table, k, q, pp)
<1>1. n \in {4, 8}
  BY TableAssumption
<1>2. /\ a \in 0..(M - 1) /\ at \in 0..(M - 1)
      /\ \/ a = at /\ Same(table, l, vp, k, q)
         \/ Cells(a, n) \cap Cells(at, n) = {}
  BY LayoutAssumption
<1>3. \/ at = a /\ w = v
      \/ Holds(ps, at, n, w) /\ Cells(a, n) \cap Cells(at, n) = {}
  <2>1. CASE k = l /\ q = vp /\ v = w
    BY <2>1
  <2>2. CASE /\ HoldsEntry(ps, k, q, pp)
             /\ k = l => IF k = 1 THEN q # vp ELSE v = TableAt(table, k - 1, vp)
    <3>1. CASE a = at /\ Same(table, l, vp, k, q)
      <4>1. k = l /\ k # 1 /\ TableAt(table, k - 1, vp) = TableAt(table, k - 1, q)
        BY <2>2, <3>1, Zenon DEF Same
      <4>2. v = TableAt(table, k - 1, vp)
        BY <2>2, <4>1
      <4> QED
        BY <3>1, <4>1, <4>2, Zenon DEF EntryValue
    <3>2. CASE Cells(a, n) \cap Cells(at, n) = {}
      BY <2>2, <3>2, Zenon DEF HoldsEntry
    <3> QED
      BY <1>2, <3>1, <3>2
  <2> QED
    BY <2>1, <2>2, Zenon
<1> HIDE DEF n, a, at, w
<1>4. Holds(Put(ps, a, v, n), at, n, w)
  BY <1>1, <1>2, <1>3, PutHolds
<1> QED
  BY <1>4, Zenon DEF HoldsEntry, SetEntry, n, a, at, w

\* The directory is apart from the tables.
LEMMA SecKept ==
  ASSUME table \in Tables, NEW ps, Paged(ps), NEW l \in Levels(table), NEW vp \in VirtualPages,
         NEW v \in Int, NEW pp \in Physical, HoldsSec(ps, pp)
  PROVE  HoldsSec(SetEntry(ps, l, vp, v), pp)
<1> DEFINE n == table.pte_bytes
           a == EntryAddr(table, l, vp)
           at == SecAddr(table, pp)
           w == SecEntry(table, pp)
<1>1. n \in {4, 8} /\ 4 \in {4, 8}
  BY TableAssumption
<1>2. a \in 0..(M - 1) /\ at \in 0..(M - 1) /\ Cells(a, n) \cap Cells(at, 4) = {}
  BY LayoutAssumption, DirectoryAssumption
<1>3. Holds(ps, at, 4, w)
  BY Zenon DEF HoldsSec
<1> HIDE DEF n, a, at, w
<1>4. Holds(Put(ps, a, v, n), at, 4, w)
  BY <1>1, <1>2, <1>3, PutHolds
<1> QED
  BY <1>4, Zenon DEF HoldsSec, SetEntry, n, a, at, w

\* An entry of the directory keeps all others, and those that it is.
LEMMA DirectoryKeeps ==
  ASSUME table \in Tables, NEW ps, Paged(ps), NEW pp \in Physical, Fits(table, pp)
  PROVE  /\ \A k \in Levels(table), q \in VirtualPages : \A x :
              HoldsEntry(ps, k, q, x) =>
                HoldsEntry(Put(ps, SecAddr(table, pp), SecEntry(table, pp), 4), k, q, x)
         /\ \A x \in Physical :
              x = pp \/ HoldsSec(ps, x) =>
                HoldsSec(Put(ps, SecAddr(table, pp), SecEntry(table, pp), 4), x)
<1> DEFINE n == table.pte_bytes
           a == SecAddr(table, pp)
           v == SecEntry(table, pp)
<1>1. n \in {4, 8} /\ 4 \in {4, 8}
  BY TableAssumption
<1>2. a \in 0..(M - 1) /\ v \in Int
  <2>1. v \in Nat
    BY EntryNumbers
  <2> QED
    BY <2>1, DirectoryAssumption
<1>3. ASSUME NEW k \in Levels(table), NEW q \in VirtualPages, NEW x, HoldsEntry(ps, k, q, x)
      PROVE  HoldsEntry(Put(ps, a, v, 4), k, q, x)
  <2> DEFINE at == EntryAddr(table, k, q)
             w == EntryValue(table, k, q, x)
  <2>1. at \in 0..(M - 1) /\ Cells(at, n) \cap Cells(a, 4) = {}
    BY LayoutAssumption
  <2>2. Cells(a, 4) \cap Cells(at, n) = {}
    BY <2>1
  <2>3. Holds(ps, at, n, w)
    BY <1>3, Zenon DEF HoldsEntry
  <2> HIDE DEF at, w, a, v, n
  <2>4. Holds(Put(ps, a, v, 4), at, n, w)
    BY <1>1, <1>2, <2>1, <2>2, <2>3, PutHolds
  <2> QED
    BY <2>4, Zenon DEF HoldsEntry, at, w, n
<1>4. ASSUME NEW x \in Physical, x = pp \/ HoldsSec(ps, x)
      PROVE  HoldsSec(Put(ps, a, v, 4), x)
  <2> DEFINE at == SecAddr(table, x)
             w == SecEntry(table, x)
  <2>1. /\ at \in 0..(M - 1)
        /\ \/ SecIdx(table, pp) = SecIdx(table, x)
           \/ Cells(a, 4) \cap Cells(at, 4) = {}
    BY DirectoryAssumption
  <2>2. SecIdx(table, pp) = SecIdx(table, x) => at = a /\ w = v
    BY Zenon DEF SecAddr, SecEntry, SecIdx, HighPart
  <2>3. \/ at = a /\ w = v
        \/ Holds(ps, at, 4, w) /\ Cells(a, 4) \cap Cells(at, 4) = {}
    BY <1>4, <2>1, <2>2, Zenon DEF HoldsSec
  <2> HIDE DEF at, w, a, v, n
  <2>4. Holds(Put(ps, a, v, 4), at, 4, w)
    BY <1>1, <1>2, <2>1, <2>3, PutHolds
  <2> QED
    BY <2>4, Zenon DEF HoldsSec, at, w
<1> QED
  BY <1>3, <1>4

\* A page's number and an offset, divided by the powers of the indices.
LEMMA Indices ==
  ASSUME NEW vp \in Nat, NEW o \in Offsets
  PROVE  LET vaddr == vp * PageSize + o
         IN  /\ vaddr \div PageSize = vp /\ vaddr % PageSize = o
             /\ vaddr \div R ^ 2 = vp
             /\ vaddr \div R ^ 4 = vp \div R ^ 2
             /\ vaddr \div R ^ 6 = vp \div R ^ 4
<1> DEFINE s == R ^ 2
           f == R ^ 4
           u == R ^ 6
           x == vp * s + o
<1>1. s \in Nat \ {0} /\ f \in Nat \ {0} /\ f = s * s /\ u = s * f
  BY PowerProducts
<1>2. PageSize = s /\ o \in 0..(s - 1)
  BY TableAssumption DEF Offsets
<1> HIDE DEF s, f, u
<1>3. x \div s = vp /\ x % s = o /\ x \in Nat
  <2>1. x \in Nat
    BY <1>1, <1>2
  <2> QED
    BY <1>1, <1>2, <2>1, Divided
<1> HIDE DEF x
<1>4. x \div f = vp \div s
  <2>1. (x \div s) \div s = x \div (s * s)
    BY <1>1, <1>3, DivideTwice
  <2> QED
    BY <1>1, <1>3, <2>1
<1>5. x \div u = vp \div f
  <2>1. (x \div s) \div f = x \div (s * f)
    BY <1>1, <1>3, DivideTwice
  <2> QED
    BY <1>1, <1>3, <2>1
<1> QED
  BY <1>2, <1>3, <1>4, <1>5, Zenon DEF s, f, u, x

\* A page that an entry names is found.
LEMMA PhysicalPage ==
  ASSUME table \in Tables, NEW ps, NEW pp \in Physical, Fits(table, pp), HoldsSec(ps, pp)
  PROVE  physical(ps, Pte(table, pp)) = pp
<1> DEFINE p == Pte(table, pp)
           a == SecAddr(table, pp)
           e == SecEntry(table, pp)
           s == R ^ 2
           c == R ^ 3
           u == R ^ 6
           f == R ^ 4
<1>1. /\ p \in Nat /\ e \in Nat /\ e < f /\ pp \in Nat /\ pp < u
      /\ a \in 0..(M - 1)
  BY EntryNumbers, DirectoryAssumption
<1>2. ReadInt(ps, a, 4) = e
  <2>1. Holds(ps, a, 4, e)
    BY Zenon DEF HoldsSec
  <2>2. 4 \in {4, 8} /\ e < R ^ 4
    BY <1>1
  <2> HIDE DEF a, e
  <2> QED
    BY <1>1, <2>1, <2>2, ReadsWhatIsHeld
<1>3. /\ s \in Nat \ {0} /\ c \in Nat \ {0} /\ u \in Nat \ {0} /\ R \in Nat \ {0}
      /\ f = c * R /\ f <= u /\ f \in Nat
  BY PowerProducts
<1>4. CASE Wide(table)
  <2> DEFINE sec == p % s
  <2>1. p = pp * s + (pp % s) /\ a = security_dir_vaddr + (pp % s) * 4 /\ e = 0 * 1
    BY <1>4, Zenon DEF Pte, SecIdx, SecEntry, HighPart, SecAddr
  <2>2. physical(ps, p) =
          (ReadInt(ps, security_dir_vaddr + (p % s) * 4, 4) \div u) * u + (p \div s)
    BY <1>4, Zenon DEF physical
  <2> HIDE DEF p, a, e, s, u
  <2>3. pp % s \in 0..(s - 1)
    BY <1>1, <1>3
  <2>4. p \div s = pp /\ p % s = pp % s
    BY <1>1, <1>3, <2>1, <2>3, Divided
  <2>5. physical(ps, p) = (e \div u) * u + pp
    BY <1>2, <2>1, <2>2, <2>4
  <2>6. e \div u = 0
    BY <1>3, <2>1
  <2> QED
    BY <1>1, <1>3, <2>5, <2>6 DEF p
<1>5. CASE ~Wide(table)
  <2> DEFINE h == pp \div c
             l == pp % c
  <2>1. p = l * R + h /\ a = security_dir_vaddr + h * 4 /\ e = h * c
    BY <1>5, Zenon DEF Pte, SecIdx, SecEntry, HighPart, SecAddr
  <2>2. physical(ps, p) =
          (ReadInt(ps, security_dir_vaddr + (p % R) * 4, 4) \div c) * c + (p \div R)
    BY <1>5, Zenon DEF physical
  <2> HIDE DEF p, a, e, c, u, f
  <2>3. h \in Nat /\ l \in Nat /\ pp = c * h + l
    BY <1>1, <1>3
  <2> HIDE DEF h, l
  <2>4. h \in 0..(R - 1)
    <3>1. ASSUME R <= h PROVE FALSE
      <4>1. c * R <= c * h /\ c * h = h * c
        BY <1>3, <2>3, <3>1
      <4> QED
        BY <1>1, <1>3, <2>1, <2>3, <4>1
    <3> QED
      BY <1>3, <2>3, <3>1
  <2>5. p \div R = l /\ p % R = h
    BY <1>3, <2>1, <2>3, <2>4, Divided
  <2>6. (h * c + 0) \div c = h
    BY <1>3, <2>3, Divided
  <2>7. e \div c = h
    BY <1>1, <2>1, <2>6
  <2>8. physical(ps, p) = h * c + l
    BY <1>2, <2>1, <2>2, <2>5, <2>7
  <2>9. h * c = c * h
    BY <1>3, <2>3
  <2> QED
    BY <2>3, <2>8, <2>9 DEF p
<1> QED
  BY <1>4, <1>5

\* What the entries of a page hold is what is read of them.
LEMMA ReadsEntry ==
  ASSUME table \in Tables, NEW ps, NEW k \in Levels(table), NEW vp \in VirtualPages,
         NEW pp \in Physical, Fits(table, pp), HoldsEntry(ps, k, vp, pp)
  PROVE  read_pte(ps, EntryAddr(table, k, vp)) = EntryValue(table, k, vp, pp)
<1> DEFINE n == table.pte_bytes
           a == EntryAddr(table, k, vp)
           v == EntryValue(table, k, vp, pp)
<1>1. n \in {4, 8} /\ a \in 0..(M - 1)
  BY TableAssumption, LayoutAssumption
<1>2. v \in Nat /\ v < R ^ n
  <2>1. CASE k = 1
    <3>1. v = Pte(table, pp)
      BY <2>1 DEF EntryValue
    <3>2. Pte(table, pp) \in Nat /\ Pte(table, pp) < R ^ table.pte_bytes
      BY EntryNumbers
    <3> QED
      BY <3>1, <3>2
  <2>2. CASE k # 1
    <3> DEFINE at == TableAt(table, k - 1, vp)
    <3>1. k \in 1..3 /\ k > 1 /\ k - 1 \in 1..3
      BY <2>2 DEF Levels
    <3>2. at \in Nat
      BY <3>1, TableAssumption
    <3>3. at < R ^ n
      BY <3>1, LayoutAssumption
    <3>4. v = at
      BY <2>2, Zenon DEF EntryValue
    <3> QED
      BY <3>2, <3>3, <3>4
  <2> QED
    BY <2>1, <2>2
<1>3. Holds(ps, a, n, v)
  BY Zenon DEF HoldsEntry
<1> HIDE DEF n, a, v
<1>4. ReadInt(ps, a, n) = v
  BY <1>1, <1>2, <1>3, ReadsWhatIsHeld
<1> QED
  BY <1>4, Zenon DEF read_pte, n, a, v

\* A page that is mapped is translated.
LEMMA TranslatesPage ==
  ASSUME table \in Tables, NEW ps, NEW vp \in VirtualPages, NEW pp \in Physical,
         Fits(table, pp), Maps(ps, vp, pp), NEW o \in Offsets
  PROVE  translate(ps, vp * PageSize + o) = pp * PageSize + o
<1> DEFINE va == vp * PageSize + o
           n == table.pte_bytes
           s == R ^ 2
<1>1. vp \in Nat /\ table.levels \in {2, 3} /\ pp \in Nat
  BY TableAssumption
<1>2. /\ va \div PageSize = vp /\ va % PageSize = o
      /\ va \div s = vp /\ va \div R ^ 4 = vp \div s /\ va \div R ^ 6 = vp \div R ^ 4
  BY <1>1, Indices
<1>3. Root = TableAt(table, table.levels, vp)
  BY LayoutAssumption DEF Root
<1>4. \A k \in Levels(table) : read_pte(ps, EntryAddr(table, k, vp)) = EntryValue(table, k, vp, pp)
  BY ReadsEntry DEF Maps
<1>5. Physically(ps, Pte(table, pp), o) = pp * PageSize + o
  <2>1. physical(ps, Pte(table, pp)) = pp
    BY PhysicalPage DEF Maps
  <2>2. pp * PageSize \in 0..(M - 1)
    <3> DEFINE u == R ^ 6
               w == R ^ 8
    <3>1. pp < u /\ u \in Nat \ {0} /\ s \in Nat \ {0} /\ w = u * s /\ PageSize = s /\ M = w
      BY EntryNumbers, PowerProducts, TableAssumption
    <3> HIDE DEF u, w, s
    <3>2. (pp + 1) * s <= u * s /\ (pp + 1) * s = pp * s + s /\ pp * s \in Nat /\ u * s \in Nat
      BY <1>1, <3>1
    <3> QED
      BY <3>1, <3>2
  <2>3. (pp * PageSize) % M = pp * PageSize
    <3> DEFINE y == pp * PageSize
    <3>1. M \in Nat
      BY GuestMemoryAssumption
    <3> HIDE DEF y
    <3>2. y \in 0..(M - 1) => y % M = y
      BY <3>1
    <3> QED
      BY <2>2, <3>2 DEF y
  <2> QED
    BY <2>1, <2>3, Zenon DEF Physically
<1> HIDE DEF va, s
<1>6. CASE table.levels = 2
  <2>1. EntryAddr(table, 1, vp) = Root + vp * n
    BY <1>3, <1>6 DEF EntryAddr, IndexAt
  <2>2. read_pte(ps, Root + vp * n) = Pte(table, pp)
    <3>1. 1 \in Levels(table)
      BY <1>6 DEF Levels
    <3>2. read_pte(ps, EntryAddr(table, 1, vp)) = EntryValue(table, 1, vp, pp)
      BY <1>4, <3>1
    <3> QED
      BY <2>1, <3>2 DEF EntryValue
  <2>3. translate(ps, va) = Physically(ps, read_pte(ps, Root + vp * n), o)
    BY <1>2, <1>6 DEF translate, translate_2level
  <2> QED
    BY <1>5, <2>2, <2>3, Zenon DEF va
<1>7. CASE table.levels = 3
  <2> DEFINE Index(k) == IndexAt(table, k, vp)
             Tab(k) == TableAt(table, k, vp)
  <2>1. Levels(table) = 1..3 /\ table.levels # 2
    BY <1>7 DEF Levels
  <2>2. /\ Index(3) = (vp \div R ^ 4) % s
        /\ Index(2) = (vp \div s) % s
        /\ Index(1) = vp % s
    <3>1. 2 * (3 - 1) = 4 /\ 2 * (2 - 1) = 2 /\ 2 * (1 - 1) = 0
      OBVIOUS
    <3>2. \A k : Index(k) = (vp \div R ^ (2 * (k - 1))) % s
      BY <2>1, Zenon DEF IndexAt, s
    <3>3. R ^ 0 = 1 /\ vp \div 1 = vp
      BY <1>1, PowersAssumption
    <3> HIDE DEF Index
    <3> QED
      BY ONLY <3>1, <3>2, <3>3 DEF s
  <2>3. \A k \in 1..3 : EntryAddr(table, k, vp) = Tab(k) + Index(k) * n
    BY <2>1 DEF EntryAddr
  <2>4. \A k \in 1..3 : read_pte(ps, Tab(k) + Index(k) * n) = EntryValue(table, k, vp, pp)
    BY <1>4, <2>1, <2>3
  <2> HIDE DEF Index, Tab
  <2>5. /\ read_pte(ps, Tab(3) + Index(3) * n) = Tab(2)
        /\ read_pte(ps, Tab(2) + Index(2) * n) = Tab(1)
        /\ read_pte(ps, Tab(1) + Index(1) * n) = Pte(table, pp)
    <3>1. /\ EntryValue(table, 3, vp, pp) = Tab(2)
          /\ EntryValue(table, 2, vp, pp) = Tab(1)
          /\ EntryValue(table, 1, vp, pp) = Pte(table, pp)
      BY DEF EntryValue, Tab
    <3> QED
      BY <2>4, <3>1
  <2>6. Root = Tab(3)
    BY <1>3, <1>7 DEF Tab
  <2> DEFINE Pointer(base, shift) == read_pte(ps, base + ((va \div shift) % s) * n)
  <2>7. translate(ps, va) =
          Physically(ps, Pointer(Pointer(Pointer(Root, R ^ 6), R ^ 4), R ^ 2), va % PageSize)
    BY <1>7 DEF translate, translate_3level, s
  <2>8. \A base : /\ Pointer(base, R ^ 6) = read_pte(ps, base + Index(3) * n)
                  /\ Pointer(base, R ^ 4) = read_pte(ps, base + Index(2) * n)
                  /\ Pointer(base, R ^ 2) = read_pte(ps, base + Index(1) * n)
    <3>1. (va \div R ^ 6) % s = Index(3) /\ (va \div R ^ 4) % s = Index(2)
      BY <1>2, <2>2
    <3>2. (va \div R ^ 2) % s = Index(1)
      BY <1>2, <2>2 DEF s
    <3> QED
      BY <3>1, <3>2, Zenon
  <2> HIDE DEF Pointer
  <2>9. Pointer(Pointer(Pointer(Root, R ^ 6), R ^ 4), R ^ 2) = Pte(table, pp)
    BY <2>5, <2>6, <2>8
  <2> QED
    BY <1>2, <1>5, <2>7, <2>9, Zenon DEF va
<1> QED
  BY <1>1, <1>6, <1>7

\* The entry of a page changes, in tables that map other pages.
LEMMA OthersMapped ==
  ASSUME table \in Tables, NEW ps, Paged(ps), NEW l \in Levels(table), NEW vp \in VirtualPages,
         NEW v \in Int, NEW q \in VirtualPages, NEW x \in Physical, Maps(ps, q, x),
         IF l = 1 THEN q # vp ELSE v = TableAt(table, l - 1, vp)
  PROVE  Maps(SetEntry(ps, l, vp, v), q, x)
<1> DEFINE new == SetEntry(ps, l, vp, v)
<1>1. ASSUME NEW k \in Levels(table) PROVE HoldsEntry(new, k, q, x)
  <2>1. HoldsEntry(ps, k, q, x)
    BY DEF Maps
  <2>2. k = l => IF k = 1 THEN q # vp ELSE v = TableAt(table, k - 1, vp)
    OBVIOUS
  <2> QED
    BY <2>1, <2>2, EntryKept
<1>2. HoldsSec(new, x)
  BY SecKept DEF Maps
<1> HIDE DEF new
<1> QED
  BY <1>1, <1>2 DEF Maps, new

\* The last entry of a page and that of the directory are set.
LEMMA LeafSet ==
  ASSUME table \in Tables, NEW ps, Paged(ps), NEW vp \in VirtualPages, NEW pp \in Physical,
         Fits(table, pp),
         \A k \in Levels(table) \ {1} : HoldsEntry(ps, k, vp, pp)
  PROVE  /\ Maps(SetLeaf(ps, vp, pp), vp, pp)
         /\ \A q \in VirtualPages, x \in Physical :
              q # vp /\ Maps(ps, q, x) => Maps(SetLeaf(ps, vp, pp), q, x)
<1> DEFINE v == Pte(table, pp)
           leaf == SetEntry(ps, 1, vp, v)
           new == Put(leaf, SecAddr(table, pp), SecEntry(table, pp), 4)
<1>1. v \in Int /\ 1 \in Levels(table) /\ 1 \in 1..3
  <2>1. v \in Nat
    BY EntryNumbers
  <2>2. table.levels \in {2, 3}
    BY TableAssumption
  <2> QED
    BY <2>1, <2>2 DEF Levels
<1>2. new = SetLeaf(ps, vp, pp)
  BY DEF SetLeaf
<1>3. ASSUME NEW k \in Levels(table) PROVE HoldsEntry(leaf, k, vp, pp)
  <2> DEFINE First == k = 1 /\ vp = vp /\ v = EntryValue(table, k, vp, pp)
             Rest  == /\ HoldsEntry(ps, k, vp, pp)
                      /\ k = 1 => IF k = 1 THEN vp # vp ELSE v = TableAt(table, k - 1, vp)
  <2>1. First \/ Rest
    <3>1. CASE k = 1
      BY <3>1 DEF EntryValue
    <3>2. CASE k # 1
      BY <3>2
    <3> QED
      BY <3>1, <3>2
  <2> HIDE DEF v
  <2> QED
    BY <1>1, <2>1, EntryKept
<1>4. Paged(leaf)
  BY <1>1, PagedEntry
<1>5. \A q \in VirtualPages, x \in Physical : q # vp /\ Maps(ps, q, x) => Maps(leaf, q, x)
  <2> HIDE DEF v
  <2> SUFFICES ASSUME NEW q \in VirtualPages, NEW x \in Physical, q # vp, Maps(ps, q, x)
               PROVE  Maps(leaf, q, x)
    OBVIOUS
  <2>1. IF 1 = 1 THEN q # vp ELSE v = TableAt(table, 1 - 1, vp)
    OBVIOUS
  <2> QED
    BY <1>1, <2>1, OthersMapped
<1> HIDE DEF leaf, v
<1>6. /\ \A k \in Levels(table), q \in VirtualPages : \A x :
           HoldsEntry(leaf, k, q, x) => HoldsEntry(new, k, q, x)
      /\ \A x \in Physical : x = pp \/ HoldsSec(leaf, x) => HoldsSec(new, x)
  BY <1>4, DirectoryKeeps
<1> HIDE DEF new
<1>7. Maps(new, vp, pp)
  BY <1>3, <1>6 DEF Maps
<1>8. \A q \in VirtualPages, x \in Physical : Maps(leaf, q, x) => Maps(new, q, x)
  BY <1>6 DEF Maps
<1> QED
  BY <1>2, <1>5, <1>7, <1>8

\* The upper entries of a page are set.
LEMMA UpperSet ==
  ASSUME table \in Tables, table.levels = 3, NEW ps, Paged(ps), NEW vp \in VirtualPages
  PROVE  LET upper == SetEntry(ps, 3, vp, TableAt(table, 2, vp))
             both == SetEntry(upper, 2, vp, TableAt(table, 1, vp))
         IN  /\ Paged(both)
             /\ \A pp : \A k \in {2, 3} : HoldsEntry(both, k, vp, pp)
             /\ \A q \in VirtualPages, x \in Physical : Maps(ps, q, x) => Maps(both, q, x)
<1> DEFINE v3 == TableAt(table, 2, vp)
           v2 == TableAt(table, 1, vp)
           upper == SetEntry(ps, 3, vp, v3)
           both == SetEntry(upper, 2, vp, v2)
<1>1. /\ Levels(table) = 1..3 /\ 2 \in Levels(table) /\ 3 \in Levels(table) /\ 2 \in 1..3 /\ 3 \in 1..3
      /\ 2 - 1 = 1 /\ 3 - 1 = 2
  BY DEF Levels
<1>2. v3 \in Int /\ v2 \in Int
  <2>1. 2 \in 1..3 /\ 1 \in 1..3
    OBVIOUS
  <2>2. v3 \in Nat /\ v2 \in Nat
    BY <2>1, TableAssumption
  <2> QED
    BY <2>2
<1>3. \A pp : EntryValue(table, 3, vp, pp) = v3 /\ EntryValue(table, 2, vp, pp) = v2
  BY <1>1 DEF EntryValue
<1>4. TableAt(table, 3 - 1, vp) = v3 /\ TableAt(table, 2 - 1, vp) = v2
  BY <1>1
<1> HIDE DEF v3, v2
<1>5. Paged(upper)
  BY <1>1, <1>2, PagedEntry
<1>6. ASSUME NEW pp PROVE HoldsEntry(upper, 3, vp, pp)
  <2>1. 3 = 3 /\ vp = vp /\ v3 = EntryValue(table, 3, vp, pp)
    BY <1>3
  <2> QED
    BY <1>1, <1>2, <2>1, EntryKept
<1>7. ASSUME NEW q \in VirtualPages, NEW x \in Physical, Maps(ps, q, x) PROVE Maps(upper, q, x)
  <2>1. IF 3 = 1 THEN q # vp ELSE v3 = TableAt(table, 3 - 1, vp)
    BY <1>4
  <2> QED
    BY <1>1, <1>2, <1>7, <2>1, OthersMapped
<1> HIDE DEF upper
<1>8. Paged(both)
  BY <1>1, <1>2, <1>5, PagedEntry
<1>9. ASSUME NEW pp PROVE HoldsEntry(both, 2, vp, pp) /\ HoldsEntry(both, 3, vp, pp)
  <2>1. HoldsEntry(both, 2, vp, pp)
    <3>1. 2 = 2 /\ vp = vp /\ v2 = EntryValue(table, 2, vp, pp)
      BY <1>3
    <3> QED
      BY <1>1, <1>2, <1>5, <3>1, EntryKept
  <2>2. HoldsEntry(both, 3, vp, pp)
    <3>1. HoldsEntry(upper, 3, vp, pp) /\ (3 = 2 => IF 3 = 1 THEN vp # vp ELSE v2 = TableAt(table, 3 - 1, vp))
      BY <1>6
    <3> QED
      BY <1>1, <1>2, <1>5, <3>1, EntryKept
  <2> QED
    BY <2>1, <2>2
<1>10. ASSUME NEW q \in VirtualPages, NEW x \in Physical, Maps(upper, q, x) PROVE Maps(both, q, x)
  <2>1. IF 2 = 1 THEN q # vp ELSE v2 = TableAt(table, 2 - 1, vp)
    BY <1>4
  <2> QED
    BY <1>1, <1>2, <1>5, <1>10, <2>1, OthersMapped
<1> HIDE DEF both
<1> QED
  BY <1>7, <1>8, <1>9, <1>10 DEF both, upper, v3, v2

\* What the tables say: the entries of the pages that are mapped, and nothing
\* of those that are not.
TablesHold ==
  /\ kind # "tables" => mapped = <<>>
  /\ kind = "tables" =>
       /\ table \in Tables
       /\ \A vp \in DOMAIN mapped :
            /\ vp \in VirtualPages /\ mapped[vp] \in Physical
            /\ Fits(table, mapped[vp]) /\ Maps(pages, vp, mapped[vp])

\* Maps reads the variable table, which never changes.
LEMMA MapsStay ==
  ASSUME table' = table, NEW vp, NEW pp
  PROVE  Maps(pages, vp, pp)' <=> Maps(pages', vp, pp)
BY DEF Maps, HoldsEntry, HoldsSec, Holds, ByteAt

\* Mapping a page.
LEMMA MapHolds ==
  ASSUME TablesHold, Paged(pages), NEW vp \in VirtualPages, NEW pp \in Physical, Map(vp, pp)
  PROVE  TablesHold'
<1>1. /\ kind = "tables" /\ kind' = kind /\ table' = table /\ table \in Tables /\ Fits(table, pp)
      /\ mapped' = [q \in DOMAIN mapped \cup {vp} |-> IF q = vp THEN pp ELSE mapped[q]]
  BY DEF Map, TablesHold, Fits
<1>2. /\ Maps(pages', vp, pp)
      /\ \A q \in VirtualPages, x \in Physical : q # vp /\ Maps(pages, q, x) => Maps(pages', q, x)
  <2>1. CASE table.levels = 2
    <3>1. pages' = SetLeaf(pages, vp, pp)
      BY <2>1 DEF Map
    <3>2. \A k \in Levels(table) \ {1} : HoldsEntry(pages, k, vp, pp)
      BY <2>1 DEF Levels
    <3> QED
      BY <1>1, <3>1, <3>2, LeafSet
  <2>2. CASE table.levels # 2
    <3> DEFINE upper == SetEntry(pages, 3, vp, TableAt(table, 2, vp))
               both == SetEntry(upper, 2, vp, TableAt(table, 1, vp))
    <3>1. pages' = SetLeaf(both, vp, pp)
      BY <2>2 DEF Map
    <3>2. table.levels = 3 /\ Levels(table) \ {1} = {2, 3}
      BY <1>1, <2>2, TableAssumption DEF Levels
    <3>3. /\ Paged(both)
          /\ \A x : \A k \in {2, 3} : HoldsEntry(both, k, vp, x)
          /\ \A q \in VirtualPages, x \in Physical : Maps(pages, q, x) => Maps(both, q, x)
      BY <1>1, <3>2, UpperSet
    <3> HIDE DEF both
    <3>4. /\ Maps(SetLeaf(both, vp, pp), vp, pp)
          /\ \A q \in VirtualPages, x \in Physical :
               q # vp /\ Maps(both, q, x) => Maps(SetLeaf(both, vp, pp), q, x)
      <4>1. \A k \in Levels(table) \ {1} : HoldsEntry(both, k, vp, pp)
        BY <3>2, <3>3
      <4> QED
        BY <1>1, <3>3, <4>1, LeafSet
    <3> QED
      BY <3>1, <3>3, <3>4
  <2> QED
    BY <2>1, <2>2
<1>3. ASSUME NEW q \in DOMAIN mapped'
      PROVE  /\ q \in VirtualPages /\ mapped'[q] \in Physical
             /\ Fits(table, mapped'[q]) /\ Maps(pages', q, mapped'[q])
  <2>1. CASE q = vp
    BY <1>1, <1>2, <2>1
  <2>2. CASE q # vp
    <3>1. q \in DOMAIN mapped /\ mapped'[q] = mapped[q]
      BY <1>1, <2>2
    <3>2. q \in VirtualPages /\ mapped[q] \in Physical /\ Fits(table, mapped[q]) /\ Maps(pages, q, mapped[q])
      BY <1>1, <3>1 DEF TablesHold
    <3> QED
      BY <1>2, <2>2, <3>1, <3>2
  <2> QED
    BY <2>1, <2>2
<1> QED
  BY <1>1, <1>3, MapsStay DEF TablesHold, Fits, Wide

\* Unmapping a page.
LEMMA UnmapHolds ==
  ASSUME TablesHold, Paged(pages), NEW vp \in VirtualPages, Unmap(vp)
  PROVE  TablesHold'
<1>1. /\ kind = "tables" /\ kind' = kind /\ table' = table /\ table \in Tables
      /\ pages' = SetEntry(pages, 1, vp, 0)
      /\ mapped' = [q \in DOMAIN mapped \ {vp} |-> mapped[q]]
  BY DEF Unmap, TablesHold
<1>2. 1 \in Levels(table) /\ 0 \in Int
  BY <1>1, TableAssumption DEF Levels
<1>3. ASSUME NEW q \in DOMAIN mapped'
      PROVE  /\ q \in VirtualPages /\ mapped'[q] \in Physical
             /\ Fits(table, mapped'[q]) /\ Maps(pages', q, mapped'[q])
  <2>1. q \in DOMAIN mapped /\ q # vp /\ mapped'[q] = mapped[q]
    BY <1>1
  <2>2. q \in VirtualPages /\ mapped[q] \in Physical /\ Fits(table, mapped[q]) /\ Maps(pages, q, mapped[q])
    BY <1>1, <2>1 DEF TablesHold
  <2>3. IF 1 = 1 THEN q # vp ELSE 0 = TableAt(table, 1 - 1, vp)
    BY <2>1
  <2>4. Maps(SetEntry(pages, 1, vp, 0), q, mapped[q])
    BY <1>1, <1>2, <2>2, <2>3, OthersMapped
  <2> QED
    BY <1>1, <2>1, <2>2, <2>4
<1> QED
  BY <1>1, <1>3, MapsStay DEF TablesHold, Fits, Wide

\* Every step keeps what the tables say.
LEMMA TablesStep ==
  ASSUME MemoryPart, TablesHold, [MCNext]_<<part, vars, memoryVars, tableVars, wasiVars>>
  PROVE  TablesHold'
<1>0. Paged(pages)
  BY DEF MemoryPart, MemoryInv
<1>1. CASE \E vp \in VirtualPages, pp \in Physical : Map(vp, pp)
  BY <1>0, <1>1, MapHolds
<1>2. CASE \E vp \in VirtualPages : Unmap(vp)
  BY <1>0, <1>2, UnmapHolds
<1>3. CASE UNCHANGED <<memoryVars, tableVars>>
  <2>1. kind' = kind /\ table' = table /\ mapped' = mapped /\ pages' = pages
    BY <1>3 DEF memoryVars, tableVars
  <2> QED
    BY <2>1, MapsStay DEF TablesHold, Fits, Wide
<1>4. CASE MemoryNext /\ UNCHANGED tableVars
  <2>1. kind # "tables" /\ kind' = kind /\ mapped' = mapped
    BY <1>4 DEF MemoryNext, LegacyRead, LinearRead, LegacyWrite, LinearWrite, GetPage, tableVars
  <2> QED
    BY <2>1 DEF TablesHold
<1>5. \/ TableNext
      \/ UNCHANGED <<memoryVars, tableVars>>
  BY DEF MCNext, NativeNext, WaxNext, JsNext, CallsNext, CodeStays, TablesNext
<1> QED
  BY <1>1, <1>2, <1>3, <1>4, <1>5 DEF TableNext

\* An address of a mapped page is translated to the same offset in the page
\* that was mapped last, in tables of two and of three levels and with both
\* widths of entries, for any pages and any place of the tables
\* (SharedPageTable::translate, backends.rs:253-261).
THEOREM TablesTranslate == MCSpec => []TranslatesAsMapped
<1>1. MCInit => TablesHold
  <2> SUFFICES ASSUME MCInit PROVE TablesHold
    OBVIOUS
  <2>1. TableInit
    BY DEF MCInit, NoMemory
  <2>2. mapped = <<>> /\ (kind = "tables" => table \in Tables) /\ DOMAIN mapped = {}
    BY <2>1 DEF TableInit
  <2> QED
    BY <2>2 DEF TablesHold
<1>2. TablesHold => TranslatesAsMapped
  <2> SUFFICES ASSUME TablesHold, NEW vp \in DOMAIN mapped, NEW o \in Offsets
               PROVE  translate(pages, vp * PageSize + o) = mapped[vp] * PageSize + o
    BY DEF TranslatesAsMapped
  <2>1. kind = "tables"
    BY DEF TablesHold
  <2>2. /\ table \in Tables /\ vp \in VirtualPages /\ mapped[vp] \in Physical
        /\ Fits(table, mapped[vp]) /\ Maps(pages, vp, mapped[vp])
    BY <2>1 DEF TablesHold
  <2> QED
    BY <2>2, TranslatesPage
<1> QED
  BY <1>1, <1>2, TablesStep, MemoryPartInvariant, PTL DEF MCSpec
-----------------------------------------------------------------------------
(***************************************************************************)
(* Stacks of typed values: WebAssembly and JavaScript                      *)
(***************************************************************************)
Slot == [t : {"i32", "i64", "BigInt", "Number"}, v : Word]

\* What a stack holds, without the types; and a stack without its top n.
Vals(x) == [i \in DOMAIN x |-> x[i].v]
Cut(x, n) == SubSeq(x, 1, Len(x) - n)

\* A stack without its top.
LEMMA CutFacts ==
  ASSUME NEW S, NEW x \in Seq(S), NEW n \in 0..Len(x)
  PROVE  /\ Cut(x, n) \in Seq(S)
         /\ Len(Cut(x, n)) = Len(x) - n
         /\ \A i \in 1..(Len(x) - n) : Cut(x, n)[i] = x[i]
<1> DEFINE k == Len(x) - n
<1>1. k \in Nat /\ k <= Len(x) /\ Len(x) \in Nat
  OBVIOUS
<1>2. \A i \in 1..k : x[i] \in S
  BY <1>1
<1> HIDE DEF k
<1>3. /\ SubSeq(x, 1, k) \in Seq(S)
      /\ Len(SubSeq(x, 1, k)) = k
      /\ \A i \in 1..k : SubSeq(x, 1, k)[i] = x[i]
  BY <1>1, <1>2, SubSeqProperties
<1> QED
  BY <1>3 DEF Cut, k

\* A stack is what is below its top, and its top.
LEMMA TopAndRest ==
  ASSUME NEW S, NEW x \in Seq(S), Len(x) >= 1
  PROVE  /\ Cut(x, 1) \in Seq(S)
         /\ x[Len(x)] \in S
         /\ x = Append(Cut(x, 1), x[Len(x)])
<1> DEFINE r == Cut(x, 1)
           y == Append(r, x[Len(x)])
<1>1. Len(x) \in Nat \ {0} /\ 1 \in 0..Len(x)
  OBVIOUS
<1>2. r \in Seq(S) /\ Len(r) = Len(x) - 1 /\ \A i \in 1..(Len(x) - 1) : r[i] = x[i]
  BY <1>1, CutFacts
<1>3. x[Len(x)] \in S
  BY <1>1
<1> HIDE DEF r
<1>4. /\ y \in Seq(S) /\ Len(y) = Len(r) + 1 /\ y[Len(r) + 1] = x[Len(x)]
      /\ \A i \in 1..Len(r) : y[i] = r[i]
  BY <1>2, <1>3, AppendProperties
<1> HIDE DEF y
<1>5. Len(y) = Len(x) /\ \A i \in 1..Len(x) : y[i] = x[i]
  BY <1>1, <1>2, <1>4
<1>6. y = x
  BY <1>4, <1>5, SeqEqual
<1> QED
  BY <1>2, <1>3, <1>6 DEF r, y

\* Pushing, and taking off again.
LEMMA CutAppend ==
  ASSUME NEW S, NEW r \in Seq(S), NEW e \in S
  PROVE  /\ Append(r, e) \in Seq(S)
         /\ Len(Append(r, e)) = Len(r) + 1
         /\ Append(r, e)[Len(r) + 1] = e
         /\ Cut(Append(r, e), 1) = r
<1> DEFINE y == Append(r, e)
           c == Cut(y, 1)
<1>1. /\ y \in Seq(S) /\ Len(y) = Len(r) + 1 /\ y[Len(r) + 1] = e
      /\ \A i \in 1..Len(r) : y[i] = r[i]
  BY AppendProperties
<1> HIDE DEF y
<1>2. Len(r) \in Nat /\ 1 \in 0..Len(y) /\ Len(y) - 1 = Len(r)
  BY <1>1
<1>3. c \in Seq(S) /\ Len(c) = Len(r) /\ \A i \in 1..Len(r) : c[i] = y[i]
  BY <1>1, <1>2, CutFacts
<1> HIDE DEF c
<1>4. \A i \in 1..Len(r) : c[i] = r[i]
  BY <1>1, <1>3
<1>5. c = r
  BY <1>3, <1>4, SeqEqual
<1> QED
  BY <1>1, <1>5 DEF y, c

\* The values of a stack.
LEMMA ValsFacts ==
  ASSUME NEW x \in Seq(Slot)
  PROVE  /\ Vals(x) \in Seq(Word)
         /\ Len(Vals(x)) = Len(x)
         /\ \A i \in 1..Len(x) : Vals(x)[i] = x[i].v
         /\ \A e \in Slot : Vals(Append(x, e)) = Append(Vals(x), e.v)
         /\ \A n \in 0..Len(x) : Vals(Cut(x, n)) = Cut(Vals(x), n)
<1>1. ASSUME NEW y \in Seq(Slot)
      PROVE  Vals(y) \in Seq(Word) /\ Len(Vals(y)) = Len(y) /\ \A i \in 1..Len(y) : Vals(y)[i] = y[i].v
  <2>0. Len(y) \in Nat /\ DOMAIN y = 1..Len(y) /\ \A i \in 1..Len(y) : y[i] \in Slot
    OBVIOUS
  <2>1. Len(y) \in Nat /\ DOMAIN y = 1..Len(y) /\ \A i \in 1..Len(y) : y[i].v \in Word
    BY <2>0 DEF Slot
  <2>2. Vals(y) = [i \in 1..Len(y) |-> y[i].v]
    BY <2>1 DEF Vals
  <2>3. Vals(y) \in Seq(Word) /\ Len(Vals(y)) = Len(y)
    BY <2>1, <2>2, SeqDef
  <2> QED
    BY <2>2, <2>3
<1>2. ASSUME NEW e \in Slot PROVE Vals(Append(x, e)) = Append(Vals(x), e.v)
  <2> DEFINE y == Append(x, e)
             a == Vals(y)
             b == Append(Vals(x), e.v)
  <2>1. e.v \in Word
    BY DEF Slot
  <2>2. y \in Seq(Slot) /\ Len(y) = Len(x) + 1 /\ y[Len(x) + 1] = e /\ \A i \in 1..Len(x) : y[i] = x[i]
    BY AppendProperties
  <2>3. Vals(x) \in Seq(Word) /\ Len(Vals(x)) = Len(x) /\ \A i \in 1..Len(x) : Vals(x)[i] = x[i].v
    BY <1>1
  <2> HIDE DEF y
  <2>4. a \in Seq(Word) /\ Len(a) = Len(y) /\ \A i \in 1..Len(y) : a[i] = y[i].v
    BY <1>1, <2>2
  <2>5. /\ b \in Seq(Word) /\ Len(b) = Len(Vals(x)) + 1 /\ b[Len(Vals(x)) + 1] = e.v
        /\ \A i \in 1..Len(Vals(x)) : b[i] = Vals(x)[i]
    BY <2>1, <2>3, AppendProperties
  <2> HIDE DEF a, b
  <2>6. Len(a) = Len(b) /\ \A i \in 1..Len(a) : a[i] = b[i]
    <3>1. Len(x) \in Nat
      OBVIOUS
    <3> QED
      BY <2>2, <2>3, <2>4, <2>5, <3>1
  <2>7. a = b
    BY <2>4, <2>5, <2>6, SeqEqual
  <2> QED
    BY <2>7 DEF a, b, y
<1>3. ASSUME NEW n \in 0..Len(x) PROVE Vals(Cut(x, n)) = Cut(Vals(x), n)
  <2> DEFINE c == Cut(x, n)
             a == Vals(c)
             b == Cut(Vals(x), n)
  <2>1. c \in Seq(Slot) /\ Len(c) = Len(x) - n /\ \A i \in 1..(Len(x) - n) : c[i] = x[i]
    BY CutFacts
  <2>2. Vals(x) \in Seq(Word) /\ Len(Vals(x)) = Len(x) /\ \A i \in 1..Len(x) : Vals(x)[i] = x[i].v
    BY <1>1
  <2> HIDE DEF c
  <2>3. a \in Seq(Word) /\ Len(a) = Len(c) /\ \A i \in 1..Len(c) : a[i] = c[i].v
    BY <1>1, <2>1
  <2>4. n \in 0..Len(Vals(x))
    BY <2>2
  <2>5. b \in Seq(Word) /\ Len(b) = Len(Vals(x)) - n /\ \A i \in 1..(Len(Vals(x)) - n) : b[i] = Vals(x)[i]
    BY <2>2, <2>4, CutFacts
  <2> HIDE DEF a, b
  <2>6. Len(a) = Len(b) /\ \A i \in 1..Len(a) : a[i] = b[i]
    <3> DEFINE k == Len(x) - n
    <3>1. k \in Nat /\ k <= Len(x) /\ Len(x) \in Nat
      OBVIOUS
    <3>2. Len(c) = k /\ (\A i \in 1..k : c[i] = x[i]) /\ Len(b) = k /\ (\A i \in 1..k : b[i] = Vals(x)[i])
      BY <2>1, <2>2, <2>5
    <3> HIDE DEF k
    <3>3. \A i \in 1..k : i \in 1..Len(x)
      BY <3>1
    <3> QED
      BY <2>2, <2>3, <3>2, <3>3
  <2>7. a = b
    BY <2>3, <2>5, <2>6, SeqEqual
  <2> QED
    BY <2>7 DEF a, b, c
<1> QED
  BY <1>1, <1>2, <1>3

-----------------------------------------------------------------------------
\* What the stack machine sees of the code that runs.
MStack == CASE IsWax -> W!AbsStack [] IsJs -> J!AbsStack [] OTHER -> AbsStack
MAt    == CASE IsWax -> Nowhere [] IsJs -> m.at [] OTHER -> AbsAt
MOp    == CASE IsWax -> W!AbsOp [] IsJs -> J!AbsOp [] OTHER -> last

TrapOp == [op |-> "Trap", width |-> 0, signed |-> FALSE, value |-> 0]

(***************************************************************************)
(* WebAssembly                                                             *)
(***************************************************************************)
\* Configurations without scratch locals: with them a store puts the operands
\* in the wrong order (Wax_store).
NoScratch == [arch : {"wasm"}, memory64 : BOOLEAN, ecall : BOOLEAN, scratch : {FALSE}]

\* A function while it is emitted; addresses are 32-bit values within a Load.
WaxFunctions ==
  [stk    : Seq(Slot),
   local  : {[addr |-> 0, value |-> 0]},
   mem    : Memories,
   status : {"run", "trap", "done"}]

WaxSlot == [t : {"i64"}, v : Word]

\* The operands are 64-bit values.
WaxInv ==
  /\ backend \in NoScratch
  /\ m \in WaxFunctions
  /\ m.stk \in Seq(WaxSlot)

\* A machine with another stack.
With(s, x) == [s EXCEPT !.stk = x]

\* An instruction takes the operand on top and pushes another.
LEMMA Replaced ==
  ASSUME NEW s \in WaxFunctions, s.status = "run", NEW r \in Seq(Slot), NEW e \in Slot,
         s.stk = Append(r, e), NEW f \in Slot, NEW ty, ty = e.t
  PROVE  /\ W!Instr(s, <<ty>>, W!Replace(s, f)) = With(s, Append(r, f))
         /\ W!Top(s) = e.v
         /\ With(s, Append(r, f)) \in WaxFunctions
         /\ With(s, Append(r, f)).status = "run"
         /\ With(s, Append(r, f)).stk = Append(r, f)
         /\ With(s, Append(r, f)).mem = s.mem
<1> DEFINE t == With(s, Append(r, f))
<1>1. /\ Len(s.stk) = Len(r) + 1 /\ s.stk[Len(r) + 1] = e /\ Cut(s.stk, 1) = r
      /\ Append(r, f) \in Seq(Slot) /\ Len(r) \in Nat
  BY CutAppend
<1>2. W!OnTop(s, <<ty>>)
  BY <1>1 DEF W!OnTop
<1>3. W!Replace(s, f) = t
  BY <1>1 DEF W!Replace, W!DropN, Cut, With
<1>4. W!Instr(s, <<ty>>, W!Replace(s, f)) = W!Replace(s, f)
  BY <1>2 DEF W!Instr
<1>5. t \in WaxFunctions /\ t.status = "run" /\ t.stk = Append(r, f) /\ t.mem = s.mem
  BY <1>1 DEF WaxFunctions, With
<1>6. W!Top(s) = e.v
  BY <1>1 DEF W!Top
<1> QED
  BY <1>3, <1>4, <1>5, <1>6

\* A load leaves what is at the address, with 32-bit addresses and with 64-bit
\* ones.
LEMMA WaxLoads ==
  ASSUME WaxInv, m.status = "run", Len(m.stk) >= 1, W!Top(m) \in Addresses,
         NEW w \in Widths, NEW signed \in BOOLEAN
  PROVE  /\ Read(m.mem, W!Top(m), w, signed) \in Word
         /\ W!emit_load_extend(W!emit_addr(m), w, signed)
              = [m EXCEPT !.stk = Append(Cut(m.stk, 1), W!I64(Read(m.mem, W!Top(m), w, signed)))]
<1> DEFINE r == Cut(m.stk, 1)
           e == m.stk[Len(m.stk)]
           a == W!Top(m)
           ea == [t |-> W!Addr, v |-> a]
           s == W!emit_addr(m)
           x == Read(m.mem, a, w, signed)
           u == Read(m.mem, a, 4, FALSE)
<1>1. m \in WaxFunctions /\ m.stk \in Seq(WaxSlot) /\ backend.memory64 \in BOOLEAN /\ m.mem \in Memories
  BY DEF WaxInv, NoScratch, WaxFunctions
<1>2. r \in Seq(WaxSlot) /\ e \in WaxSlot /\ m.stk = Append(r, e)
  BY <1>1, TopAndRest
<1>3. /\ r \in Seq(Slot) /\ e \in Slot /\ e.t = "i64" /\ e.v = a /\ e = [t |-> "i64", v |-> a]
      /\ a \in Word
  <2>1. WaxSlot \subseteq Slot
    BY DEF WaxSlot, Slot
  <2>2. e.v = a
    BY DEF W!Top
  <2> HIDE DEF r, e, a
  <2> QED
    BY <1>2, <2>1, <2>2, SeqMonotonic DEF WaxSlot
<1>4. x \in Word
  BY <1>1, MemoryAssumption
<1>5. Wrap(a) = a
  BY AddressesFit
<1> HIDE DEF r, e, x
<1>6. /\ s = With(m, Append(r, ea)) /\ s \in WaxFunctions /\ s.status = "run"
      /\ s.stk = Append(r, ea) /\ s.mem = m.mem /\ ea \in Slot /\ ea.t = W!Addr
  <2>1. ea \in Slot /\ ea.t = W!Addr
    BY <1>3 DEF Slot, W!Addr
  <2>2. CASE backend.memory64
    <3>1. ea = e /\ s = m
      BY <1>3, <2>2 DEF W!Addr, W!emit_addr
    <3>2. m = With(m, m.stk)
      BY <1>1 DEF WaxFunctions, With
    <3> HIDE DEF ea, s
    <3> QED
      BY <1>1, <1>2, <2>1, <3>1, <3>2
  <2>3. CASE ~backend.memory64
    <3> DEFINE f == W!I32(Wrap(a))
    <3>1. f = ea
      BY <1>5, <2>3 DEF W!I32, W!Addr
    <3>2. s = W!Instr(m, <<"i64">>, W!Replace(m, f))
      BY <2>3 DEF W!emit_addr, W!I32WrapI64
    <3> HIDE DEF f, s, ea, a
    <3>3. /\ W!Instr(m, <<"i64">>, W!Replace(m, f)) = With(m, Append(r, f))
          /\ With(m, Append(r, f)) \in WaxFunctions
          /\ With(m, Append(r, f)).status = "run"
          /\ With(m, Append(r, f)).stk = Append(r, f)
          /\ With(m, Append(r, f)).mem = m.mem
      BY <1>1, <1>2, <1>3, <2>1, <3>1, Replaced
    <3> QED
      BY <2>1, <3>1, <3>2, <3>3
  <2> QED
    BY <1>1, <2>2, <2>3
<1> HIDE DEF s
<1>7. W!Top(s) = a
  <2>1. ea.v = a
    OBVIOUS
  <2>2. Len(s.stk) = Len(r) + 1 /\ s.stk[Len(r) + 1] = ea
    BY <1>3, <1>6, CutAppend
  <2> HIDE DEF ea, a
  <2> QED
    BY <2>1, <2>2 DEF W!Top
<1>8. CASE w # 4
  <2> DEFINE f == W!I64(x)
  <2>1. f \in Slot
    BY <1>4 DEF W!I64, Slot
  <2>2. W!emit_load_extend(s, w, signed) = W!Instr(s, <<W!Addr>>, W!Replace(s, f))
    BY <1>6, <1>7, <1>8 DEF W!emit_load_extend, W!I64Load, x
  <2> HIDE DEF f, ea, a
  <2>3. W!Instr(s, <<W!Addr>>, W!Replace(s, f)) = With(s, Append(r, f))
    BY <1>3, <1>6, <2>1, Replaced
  <2>4. With(s, Append(r, f)) = [m EXCEPT !.stk = Append(r, f)]
    BY <1>1, <1>6 DEF WaxFunctions, With
  <2> QED
    BY <1>4, <2>2, <2>3, <2>4 DEF f, s, x, a, r
<1>9. CASE w = 4
  <2> DEFINE f == W!I32(u)
             s2 == W!I32Load(s)
             g == IF signed THEN W!I64(SignExtend(W!Top(s2))) ELSE W!I64(W!Top(s2))
  <2>0. u \in Word /\ x = IF signed THEN SignExtend(u) ELSE u
    <3>1. 4 \in Widths
      BY <1>9
    <3>2. u \in Word
      BY <1>1, <3>1, MemoryAssumption
    <3>3. SignExtend(u) = Read(m.mem, a, 4, TRUE)
      BY <1>1, ExtensionAssumption
    <3> QED
      BY <1>9, <3>2, <3>3 DEF x
  <2> HIDE DEF u
  <2>1. f \in Slot /\ f.t = "i32" /\ f.v = u
    BY <2>0 DEF W!I32, Slot
  <2>2. s2 = W!Instr(s, <<W!Addr>>, W!Replace(s, f))
    BY <1>6, <1>7 DEF W!I32Load, u
  <2> HIDE DEF f, ea, a, s2
  <2>3. s2 \in WaxFunctions /\ s2.status = "run" /\ s2.stk = Append(r, f) /\ s2 = With(s, Append(r, f))
    <3>1. /\ W!Instr(s, <<W!Addr>>, W!Replace(s, f)) = With(s, Append(r, f))
          /\ With(s, Append(r, f)) \in WaxFunctions
          /\ With(s, Append(r, f)).status = "run"
          /\ With(s, Append(r, f)).stk = Append(r, f)
      BY <1>3, <1>6, <2>1, Replaced, SMTT(30)
    <3> QED
      BY <2>2, <3>1, Zenon
  <2>4. W!Top(s2) = u
    <3>1. Len(s2.stk) = Len(r) + 1 /\ s2.stk[Len(r) + 1] = f
      BY <1>3, <2>1, <2>3, CutAppend
    <3> QED
      BY <2>1, <3>1 DEF W!Top
  <2>5. g = W!I64(x)
    BY <2>0, <2>4
  <2>6. g \in Slot
    BY <1>4, <2>5 DEF W!I64, Slot
  <2>7. W!emit_load_extend(s, w, signed) = W!Instr(s2, <<"i32">>, W!Replace(s2, g))
    BY <1>9 DEF W!emit_load_extend, W!I64ExtendI32S, W!I64ExtendI32U, s2
  <2> HIDE DEF g
  <2>8. W!Instr(s2, <<"i32">>, W!Replace(s2, g)) = With(s2, Append(r, g))
    BY <1>3, <2>1, <2>3, <2>6, Replaced
  <2>9. With(s2, Append(r, g)) = [m EXCEPT !.stk = Append(r, g)]
    BY <1>1, <1>6, <2>3 DEF WaxFunctions, With
  <2> QED
    BY <1>4, <2>5, <2>7, <2>8, <2>9 DEF s, x, a, r
<1> QED
  BY <1>8, <1>9

\* What the stack machine sees of a step of WebAssembly.
LEMMA WaxView ==
  ASSUME IsWax, backend' = backend, m.status = "run"
  PROVE  /\ MStack = Vals(m.stk) /\ MAt = Nowhere /\ MAt' = Nowhere
         /\ m'.status = "run" => MStack' = Vals(m'.stk) /\ MOp' = last'
         /\ m'.status = "trap" => MStack' = <<>> /\ MOp' = TrapOp
         /\ m'.status = "done" => MStack' = <<>> /\ MOp' = last'
         /\ ~IsJs /\ ~IsJs'
  BY DEF MStack, MAt, MOp, IsWax, IsJs, W!AbsStack, W!AbsOp, Vals, TrapOp

\* An instruction that cannot be encoded is a trap of the stack machine.
LEMMA WaxTraps ==
  ASSUME WaxInv, IsWax, backend' = backend, m.status = "run", m' = W!Unreachable(m)
  PROVE  WaxInv' /\ Machine!Next
<1>1. W!OnTop(m, <<>>)
  BY DEF W!OnTop, WaxInv, WaxFunctions
<1>2. m' = [m EXCEPT !.status = "trap"]
  BY <1>1 DEF W!Unreachable, W!Instr
<1>3. WaxInv' /\ m'.status = "trap" /\ m'.mem = m.mem
  BY <1>2 DEF WaxInv, WaxFunctions
<1>4. Machine!Trap
  BY <1>3, WaxView DEF Machine!Trap, Machine!Leave, Machine!Plain, Machine!Op, MStack, MAt, MOp, TrapOp
<1> QED
  BY <1>3, <1>4 DEF Machine!Next

\* A step that pushes and pops.
LEMMA WaxContinues ==
  ASSUME WaxInv, IsWax, backend' = backend, m.status = "run",
         NEW x \in Seq(WaxSlot), m' = With(m, x)
  PROVE  /\ WaxInv' /\ m'.status = "run" /\ m'.mem = m.mem
         /\ MStack = Vals(m.stk) /\ MStack' = Vals(x)
         /\ MAt = Nowhere /\ MAt' = Nowhere /\ MOp' = last'
         /\ ~IsJs /\ ~IsJs'
<1>1. x \in Seq(Slot)
  <2>1. WaxSlot \subseteq Slot
    BY DEF WaxSlot, Slot
  <2> QED
    BY <2>1, SeqMonotonic
<1>2. m'.stk = x /\ m'.status = "run" /\ m'.mem = m.mem /\ m' \in WaxFunctions
  BY <1>1 DEF With, WaxInv, WaxFunctions
<1>3. WaxInv'
  BY <1>2 DEF WaxInv
<1> QED
  BY <1>2, <1>3, WaxView

\* The operands of WebAssembly as values.
LEMMA WaxOperands ==
  ASSUME WaxInv
  PROVE  /\ m.stk \in Seq(WaxSlot) /\ m.stk \in Seq(Slot) /\ Len(m.stk) \in Nat
         /\ Vals(m.stk) \in Seq(Word) /\ Len(Vals(m.stk)) = Len(m.stk)
         /\ Len(m.stk) >= 1 =>
              /\ Cut(m.stk, 1) \in Seq(WaxSlot)
              /\ Vals(m.stk) # <<>>
              /\ m.stk[Len(m.stk)].t = "i64"
              /\ Vals(m.stk)[Len(Vals(m.stk))] = W!Top(m)
              /\ Vals(Cut(m.stk, 1)) = Cut(Vals(m.stk), 1)
         /\ \A v \in Word :
              /\ Append(m.stk, W!I64(v)) \in Seq(WaxSlot)
              /\ Vals(Append(m.stk, W!I64(v))) = Append(Vals(m.stk), v)
              /\ Len(m.stk) >= 1 =>
                   /\ Append(Cut(m.stk, 1), W!I64(v)) \in Seq(WaxSlot)
                   /\ Vals(Append(Cut(m.stk, 1), W!I64(v))) = Append(Cut(Vals(m.stk), 1), v)
<1> DEFINE x == m.stk
<1>1. x \in Seq(WaxSlot) /\ x \in Seq(Slot)
  <2>1. WaxSlot \subseteq Slot
    BY DEF WaxSlot, Slot
  <2> QED
    BY <2>1, SeqMonotonic DEF WaxInv
<1>2. \A v \in Word : W!I64(v) \in WaxSlot /\ W!I64(v) \in Slot /\ W!I64(v).v = v
  BY DEF W!I64, WaxSlot, Slot
<1>3. W!Top(m) = x[Len(x)].v
  BY DEF W!Top
<1> HIDE DEF x
<1>4. Len(x) \in Nat
  BY <1>1
<1>5. /\ Vals(x) \in Seq(Word) /\ Len(Vals(x)) = Len(x)
      /\ \A i \in 1..Len(x) : Vals(x)[i] = x[i].v
      /\ \A e \in Slot : Vals(Append(x, e)) = Append(Vals(x), e.v)
      /\ \A n \in 0..Len(x) : Vals(Cut(x, n)) = Cut(Vals(x), n)
  BY <1>1, ValsFacts
<1>6. ASSUME NEW v \in Word
      PROVE  /\ Append(x, W!I64(v)) \in Seq(WaxSlot)
             /\ Vals(Append(x, W!I64(v))) = Append(Vals(x), v)
  BY <1>1, <1>2, <1>5, AppendProperties
<1>7. ASSUME Len(x) >= 1
      PROVE  /\ Cut(x, 1) \in Seq(WaxSlot) /\ Cut(x, 1) \in Seq(Slot)
             /\ Vals(x) # <<>>
             /\ x[Len(x)].t = "i64"
             /\ Vals(x)[Len(Vals(x))] = x[Len(x)].v
             /\ Vals(Cut(x, 1)) = Cut(Vals(x), 1)
  <2>1. Cut(x, 1) \in Seq(WaxSlot) /\ x[Len(x)] \in WaxSlot
    BY <1>1, <1>7, TopAndRest
  <2>2. Cut(x, 1) \in Seq(Slot)
    BY <1>1, <1>7, TopAndRest
  <2>3. 1 \in 0..Len(x) /\ Len(x) \in 1..Len(x)
    BY <1>4, <1>7
  <2>4. Vals(x) # <<>>
    BY <1>5, <1>7
  <2> QED
    BY <1>5, <2>1, <2>2, <2>3, <2>4 DEF WaxSlot
<1>8. ASSUME Len(x) >= 1, NEW v \in Word
      PROVE  /\ Append(Cut(x, 1), W!I64(v)) \in Seq(WaxSlot)
             /\ Vals(Append(Cut(x, 1), W!I64(v))) = Append(Cut(Vals(x), 1), v)
  <2> DEFINE r == Cut(x, 1)
             e == W!I64(v)
  <2>1. /\ r \in Seq(WaxSlot) /\ r \in Seq(Slot) /\ Vals(r) = Cut(Vals(x), 1)
        /\ e \in WaxSlot /\ e \in Slot /\ e.v = v
    BY <1>2, <1>7, <1>8
  <2> HIDE DEF r, e
  <2>2. Append(r, e) \in Seq(WaxSlot)
    BY <2>1, AppendProperties
  <2>3. Vals(Append(r, e)) = Append(Vals(r), e.v)
    BY <2>1, ValsFacts
  <2> QED
    BY <2>1, <2>2, <2>3 DEF r, e
<1> QED
  BY <1>1, <1>3, <1>4, <1>5, <1>6, <1>7, <1>8 DEF x

\* An instruction that is emitted for a value.
LEMMA WaxPushes ==
  ASSUME WaxInv, m.status = "run"
  PROVE  /\ \A v : W!I64Const(m, v) = With(m, Append(m.stk, W!I64(v)))
         /\ Len(m.stk) >= 1 => W!DropTop(m) = With(m, Cut(m.stk, 1))
         /\ Len(m.stk) >= 1 =>
              \A e : W!Instr(m, <<"i64">>, W!Replace(m, e)) = With(m, Append(Cut(m.stk, 1), e))
<1>1. Len(m.stk) \in Nat /\ (Len(m.stk) >= 1 => m.stk[Len(m.stk)].t = "i64")
  BY WaxOperands
<1>2. W!OnTop(m, <<>>)
  BY <1>1 DEF W!OnTop
<1>3. Len(m.stk) >= 1 => W!OnTop(m, <<"i64">>)
  BY <1>1 DEF W!OnTop
<1>4. \A v : W!I64Const(m, v) = With(m, Append(m.stk, W!I64(v)))
  BY <1>2 DEF W!I64Const, W!Instr, With, WaxInv, WaxFunctions
<1>5. Len(m.stk) >= 1 => W!DropTop(m) = With(m, Cut(m.stk, 1))
  BY <1>1, <1>3 DEF W!DropTop, W!Instr, W!DropN, With, Cut
<1>6. Len(m.stk) >= 1 =>
        \A e : W!Instr(m, <<"i64">>, W!Replace(m, e)) = With(m, Append(Cut(m.stk, 1), e))
  BY <1>3 DEF W!Instr, W!Replace, W!DropN, With, Cut
<1> QED
  BY <1>4, <1>5, <1>6

\* A step that goes on is the step of the stack machine, or a trap.
LEMMA WaxStep ==
  ASSUME WaxInv, IsWax, W!Next
  PROVE  WaxInv' /\ Machine!Next
<1>0. U64s \subseteq Word /\ U32s \subseteq Half /\ Half \subseteq Word
  BY ScalarAssumption, HalfAssumption
<1>1. ASSUME NEW op, NEW code, W!Emit(op, code)
      PROVE  m.status = "run" /\ last' = op /\ m' = code /\ backend' = backend
  BY <1>1 DEF W!Emit
<1>2. ASSUME NEW v \in U64s, W!PushU64(v) PROVE WaxInv' /\ Machine!Next
  <2>1. /\ m.status = "run" /\ backend' = backend /\ m' = W!I64Const(m, v)
        /\ last' = [op |-> "PushU64", width |-> 0, signed |-> FALSE, value |-> v]
    BY <1>2, <1>1 DEF W!PushU64, W!Op, W!Promise!Op
  <2>2. /\ m' = With(m, Append(m.stk, W!I64(v))) /\ v \in Word
        /\ Append(m.stk, W!I64(v)) \in Seq(WaxSlot)
        /\ Vals(Append(m.stk, W!I64(v))) = Append(Vals(m.stk), v)
    BY <1>0, <2>1, WaxPushes, WaxOperands
  <2> DEFINE x == Append(m.stk, W!I64(v))
  <2> HIDE DEF x
  <2>3. /\ WaxInv' /\ m'.status = "run" /\ m'.mem = m.mem
        /\ MStack = Vals(m.stk) /\ MStack' = Vals(x)
        /\ MAt = Nowhere /\ MAt' = Nowhere /\ MOp' = last'
        /\ ~IsJs /\ ~IsJs'
    BY <2>1, <2>2, WaxContinues DEF x
  <2>4. Machine!PushU64(v)
    BY <2>1, <2>2, <2>3 DEF Machine!PushU64, Machine!Push, Machine!Op, MStack, MAt, MOp, x
  <2> QED
    BY <2>2, <2>3, <2>4 DEF Machine!Next
<1>3. ASSUME NEW v \in U32s, W!PushU32(v) PROVE WaxInv' /\ Machine!Next
  <2>1. /\ m.status = "run" /\ backend' = backend /\ m' = W!I64Const(m, v)
        /\ last' = [op |-> "PushU32", width |-> 0, signed |-> FALSE, value |-> v]
    BY <1>3, <1>1 DEF W!PushU32, W!Op, W!Promise!Op
  <2>2. /\ m' = With(m, Append(m.stk, W!I64(v))) /\ v \in Word /\ v \in Half
        /\ Append(m.stk, W!I64(v)) \in Seq(WaxSlot)
        /\ Vals(Append(m.stk, W!I64(v))) = Append(Vals(m.stk), v)
    BY <1>0, <2>1, WaxPushes, WaxOperands
  <2> DEFINE x == Append(m.stk, W!I64(v))
  <2> HIDE DEF x
  <2>3. /\ WaxInv' /\ m'.status = "run" /\ m'.mem = m.mem
        /\ MStack = Vals(m.stk) /\ MStack' = Vals(x)
        /\ MAt = Nowhere /\ MAt' = Nowhere /\ MOp' = last'
        /\ ~IsJs /\ ~IsJs'
    BY <2>1, <2>2, WaxContinues DEF x
  <2>4. Machine!PushU32(v)
    BY <2>1, <2>2, <2>3 DEF Machine!PushU32, Machine!Push, Machine!Op, MStack, MAt, MOp, x
  <2> QED
    BY <2>2, <2>3, <2>4 DEF Machine!Next
<1>4. ASSUME W!Pop PROVE WaxInv' /\ Machine!Next
  <2>1. /\ m.status = "run" /\ backend' = backend /\ m' = W!DropTop(m) /\ Len(m.stk) >= 1
        /\ last' = [op |-> "Pop", width |-> 0, signed |-> FALSE, value |-> 0]
    BY <1>4, <1>1 DEF W!Pop, W!Depth, W!Plain, W!Promise!Plain, W!Promise!Op
  <2> DEFINE x == Cut(m.stk, 1)
  <2>2. /\ m' = With(m, x) /\ x \in Seq(WaxSlot) /\ Vals(x) = Cut(Vals(m.stk), 1) /\ Vals(m.stk) # <<>>
    BY <2>1, WaxPushes, WaxOperands
  <2> HIDE DEF x
  <2>3. /\ WaxInv' /\ m'.status = "run" /\ m'.mem = m.mem
        /\ MStack = Vals(m.stk) /\ MStack' = Vals(x)
        /\ MAt = Nowhere /\ MAt' = Nowhere /\ MOp' = last'
        /\ ~IsJs /\ ~IsJs'
    BY <2>1, <2>2, WaxContinues
  <2>4. Machine!Pop
    BY <2>1, <2>2, <2>3 DEF Machine!Pop, Machine!Drop, Machine!Plain, Machine!Op, MStack, MAt, MOp, Cut
  <2> QED
    BY <2>3, <2>4 DEF Machine!Next
<1>5. ASSUME NEW w \in Widths, NEW signed \in BOOLEAN, W!Load(w, signed)
      PROVE  WaxInv' /\ Machine!Next
  <2> DEFINE v == Read(m.mem, W!Top(m), w, signed)
             x == Append(Cut(m.stk, 1), W!I64(v))
  <2>1. /\ m.status = "run" /\ backend' = backend /\ Len(m.stk) >= 1 /\ W!Top(m) \in Addresses
        /\ m' = W!emit_load_extend(W!emit_addr(m), w, signed)
        /\ last' = [op |-> "Load", width |-> w, signed |-> signed, value |-> 0]
    BY <1>5, <1>1 DEF W!Load, W!Depth, W!Op, W!Promise!Op
  <2>2. v \in Word /\ m' = With(m, x)
    BY <2>1, WaxLoads DEF With
  <2>3. /\ x \in Seq(WaxSlot) /\ Vals(x) = Append(Cut(Vals(m.stk), 1), v) /\ Vals(m.stk) # <<>>
        /\ Vals(m.stk)[Len(Vals(m.stk))] = W!Top(m)
    BY <2>1, <2>2, WaxOperands
  <2> HIDE DEF x
  <2>4. /\ WaxInv' /\ m'.status = "run" /\ m'.mem = m.mem
        /\ MStack = Vals(m.stk) /\ MStack' = Vals(x)
        /\ MAt = Nowhere /\ MAt' = Nowhere /\ MOp' = last'
        /\ ~IsJs /\ ~IsJs'
    BY <2>1, <2>2, <2>3, WaxContinues
  <2>5. Machine!Load(w, signed)
    BY <2>1, <2>3, <2>4 DEF Machine!Load, Machine!Drop, Machine!Top, Machine!Op, MStack, MAt, MOp, Cut
  <2> QED
    BY <2>4, <2>5 DEF Machine!Next
<1>6. ASSUME NEW w \in Widths, W!Store(w) PROVE WaxInv' /\ Machine!Next
  <2>1. m.status = "run" /\ backend' = backend /\ m' = W!CodeStore(m, w)
    BY <1>6, <1>1 DEF W!Store
  <2>2. m' = W!Unreachable(m)
    BY <2>1 DEF W!CodeStore, WaxInv, NoScratch
  <2> QED
    BY <2>1, <2>2, WaxTraps
<1>7. ASSUME W!Ecall PROVE WaxInv' /\ Machine!Next
  <2>0. PICK answer \in {Nowhere} \cup U64s :
          /\ answer # Nowhere => W!Depth >= 1
          /\ W!Emit(W!Plain("Ecall"), W!CodeEcall(m, answer))
    BY <1>7 DEF W!Ecall
  <2>1. /\ m.status = "run" /\ backend' = backend /\ m' = W!CodeEcall(m, answer)
        /\ last' = [op |-> "Ecall", width |-> 0, signed |-> FALSE, value |-> 0]
    BY <2>0, <1>1 DEF W!Plain, W!Promise!Plain, W!Promise!Op
  <2>2. CASE ~backend.ecall
    <3>1. m' = W!Unreachable(m)
      BY <2>1, <2>2 DEF W!CodeEcall
    <3> QED
      BY <2>1, <3>1, WaxTraps
  <2>3. CASE backend.ecall /\ answer = Nowhere
    <3>1. m' = m /\ m = With(m, m.stk) /\ m.stk \in Seq(WaxSlot)
      BY <2>1, <2>3 DEF W!CodeEcall, With, WaxInv, WaxFunctions
    <3> DEFINE x == m.stk
    <3> HIDE DEF x
    <3>2. /\ WaxInv' /\ m'.status = "run" /\ m'.mem = m.mem
          /\ MStack = Vals(m.stk) /\ MStack' = Vals(x)
          /\ MAt = Nowhere /\ MAt' = Nowhere /\ MOp' = last'
          /\ ~IsJs /\ ~IsJs'
      BY <2>1, <3>1, WaxContinues DEF x
    <3>3. Machine!Ecall
      BY <2>1, <3>1, <3>2 DEF Machine!Ecall, Machine!Plain, Machine!Op, MStack, MAt, MOp, x
    <3> QED
      BY <3>2, <3>3 DEF Machine!Next
  <2>4. CASE backend.ecall /\ answer # Nowhere
    <3> DEFINE x == Append(Cut(m.stk, 1), W!I64(answer))
    <3>1. /\ Len(m.stk) >= 1 /\ answer \in Word
          /\ m' = W!Instr(m, <<"i64">>, W!Replace(m, W!I64(answer)))
      BY <1>0, <2>0, <2>1, <2>4 DEF W!CodeEcall, W!Depth
    <3>2. /\ m' = With(m, x) /\ x \in Seq(WaxSlot) /\ Vals(m.stk) # <<>>
          /\ Vals(x) = Append(Cut(Vals(m.stk), 1), answer)
      BY <2>1, <3>1, WaxPushes, WaxOperands
    <3> HIDE DEF x
    <3>3. /\ WaxInv' /\ m'.status = "run" /\ m'.mem = m.mem
          /\ MStack = Vals(m.stk) /\ MStack' = Vals(x)
          /\ MAt = Nowhere /\ MAt' = Nowhere /\ MOp' = last'
          /\ ~IsJs /\ ~IsJs'
      BY <2>1, <3>2, WaxContinues
    <3>4. Machine!Ecall
      BY <2>1, <3>1, <3>2, <3>3
      DEF Machine!Ecall, Machine!Drop, Machine!Plain, Machine!Op, MStack, MAt, MOp, Cut
    <3> QED
      BY <3>3, <3>4 DEF Machine!Next
  <2> QED
    BY <2>2, <2>3, <2>4
<1>8. ASSUME NEW op, W!Emit(op, W!Unreachable(m)) PROVE WaxInv' /\ Machine!Next
  BY <1>1, <1>8, WaxTraps
<1>9. ASSUME W!Finish PROVE WaxInv' /\ Machine!Next
  <2>1. /\ m.status = "run" /\ backend' = backend /\ m' = [m EXCEPT !.status = "done"]
        /\ last' = [op |-> "finish", width |-> 0, signed |-> FALSE, value |-> 0]
    BY <1>9, <1>1 DEF W!Finish, W!Plain, W!Promise!Plain, W!Promise!Op
  <2>2. WaxInv' /\ m'.status = "done" /\ m'.mem = m.mem
    BY <2>1 DEF WaxInv, WaxFunctions
  <2>3. Machine!Finish
    BY <2>1, <2>2, WaxView DEF Machine!Finish, Machine!Leave, Machine!Plain, Machine!Op, MStack, MAt, MOp
  <2> QED
    BY <2>2, <2>3 DEF Machine!Next
<1>10. ASSUME NEW t, W!Jump(t) PROVE WaxInv' /\ Machine!Next
  BY <1>8, <1>10 DEF W!Jump
<1>11. ASSUME NEW h, W!TailCall(h) PROVE WaxInv' /\ Machine!Next
  BY <1>8, <1>11 DEF W!TailCall
<1>12. ASSUME W!Trap PROVE WaxInv' /\ Machine!Next
  BY <1>8, <1>12 DEF W!Trap
<1> QED
  BY <1>2, <1>3, <1>4, <1>5, <1>6, <1>7, <1>9, <1>10, <1>11, <1>12, Zenon DEF W!Next

-----------------------------------------------------------------------------
(***************************************************************************)
(* JavaScript                                                              *)
(***************************************************************************)
\* Configurations that give every operation a block and name the helpers.
Scoped == [arch : {"js"}, prefix : {TRUE}, scoped : {TRUE}]

JsSlot == [t : {"BigInt", "Number"}, v : Word]

\* Programs; no name stays declared.
JsPrograms ==
  [stk      : Seq(JsSlot),
   declared : {{}},
   mem      : Memories,
   status   : {"run", "trap", "tail", "done"},
   at       : Helpers \cup {Nowhere}]

\* A program that runs has not left for a helper.
JsInv ==
  /\ backend \in Scoped
  /\ m \in JsPrograms
  /\ m.status = "run" => m.at = Nowhere

\* The operands of JavaScript as values.
LEMMA JsOperands ==
  ASSUME NEW x \in Seq(JsSlot)
  PROVE  /\ Len(x) \in Nat
         /\ Len(Vals(x)) = Len(x)
         /\ \A e \in JsSlot :
              Append(x, e) \in Seq(JsSlot) /\ Vals(Append(x, e)) = Append(Vals(x), e.v)
         /\ \A n \in 0..Len(x) :
              Cut(x, n) \in Seq(JsSlot) /\ Vals(Cut(x, n)) = Cut(Vals(x), n)
         /\ \A i \in 1..Len(x) : x[i] \in JsSlot /\ Vals(x)[i] = x[i].v
<1>1. JsSlot \subseteq Slot
  BY DEF JsSlot, Slot
<1>2. x \in Seq(Slot) /\ Len(x) \in Nat
  BY <1>1, SeqMonotonic
<1>3. /\ Len(Vals(x)) = Len(x)
      /\ \A i \in 1..Len(x) : Vals(x)[i] = x[i].v
      /\ \A e \in Slot : Vals(Append(x, e)) = Append(Vals(x), e.v)
      /\ \A n \in 0..Len(x) : Vals(Cut(x, n)) = Cut(Vals(x), n)
  BY <1>2, ValsFacts
<1>4. \A e \in JsSlot : Append(x, e) \in Seq(JsSlot) /\ Vals(Append(x, e)) = Append(Vals(x), e.v)
  BY <1>1, <1>3, AppendProperties
<1>5. \A n \in 0..Len(x) : Cut(x, n) \in Seq(JsSlot)
  BY CutFacts
<1>6. \A i \in 1..Len(x) : x[i] \in JsSlot
  OBVIOUS
<1> QED
  BY <1>2, <1>3, <1>4, <1>5, <1>6

\* What the stack machine sees of a step of JavaScript.
LEMMA JsView ==
  ASSUME JsInv, IsJs, backend' = backend, m.status = "run"
  PROVE  /\ MStack = Vals(m.stk) /\ MAt = Nowhere /\ MAt' = m'.at
         /\ m'.status = "run" => MStack' = Vals(m'.stk)
         /\ m'.status # "run" => MStack' = <<>>
         /\ m'.status = "trap" => MOp' = TrapOp
         /\ m'.status # "trap" => MOp' = last'
         /\ IsJs'
<1>1. ~IsWax /\ ~IsWax' /\ IsJs' /\ m.at = Nowhere
  BY DEF IsWax, IsJs, JsInv
<1> QED
  BY <1>1 DEF MStack, MAt, MOp, J!AbsStack, J!AbsOp, Vals, TrapOp

\* What throws is a trap of the stack machine.
LEMMA JsTraps ==
  ASSUME JsInv, IsJs, backend' = backend, m.status = "run",
         m' \in JsPrograms, m'.status = "trap", m'.at = m.at, m'.mem = m.mem
  PROVE  JsInv' /\ Machine!Next
<1>1. JsInv' /\ m'.at = Nowhere
  BY DEF JsInv
<1>2. Machine!Trap
  BY <1>1, JsView DEF Machine!Trap, Machine!Leave, Machine!Plain, Machine!Op, MStack, MAt, MOp, TrapOp
<1> QED
  BY <1>1, <1>2 DEF Machine!Next

\* A step that pushes and pops, and may write to memory.
LEMMA JsContinues ==
  ASSUME JsInv, IsJs, backend' = backend, m.status = "run",
         NEW x \in Seq(JsSlot), NEW mem \in Memories, m' = [m EXCEPT !.stk = x, !.mem = mem]
  PROVE  /\ JsInv' /\ m'.status = "run" /\ m'.mem = mem
         /\ MStack = Vals(m.stk) /\ MStack' = Vals(x)
         /\ MAt = Nowhere /\ MAt' = Nowhere /\ MOp' = last' /\ IsJs'
<1>1. /\ m' \in JsPrograms /\ m'.stk = x /\ m'.status = "run" /\ m'.mem = mem /\ m'.at = Nowhere
  BY DEF JsInv, JsPrograms
<1>2. JsInv'
  BY <1>1 DEF JsInv
<1> QED
  BY <1>1, <1>2, JsView

\* Each helper is there and each block has its own names.
LEMMA JsBlocks ==
  ASSUME JsInv
  PROVE  \A names : J!Helper(J!Let(m, names)) = m
<1>1. m.declared = {} /\ backend.prefix /\ backend.scoped
  BY DEF JsInv, JsPrograms, Scoped
<1>2. m = [m EXCEPT !.declared = {}]
  BY DEF JsInv, JsPrograms
<1> QED
  BY <1>1, <1>2 DEF J!Helper, J!Let

\* A load pushes what is at the address.
LEMMA JsLoads ==
  ASSUME JsInv, m.status = "run", Len(m.stk) >= 1, J!Top(m).v \in Addresses,
         NEW w \in Widths, NEW signed \in BOOLEAN
  PROVE  LET v == Read(m.mem, J!Top(m).v, w, signed)
         IN  /\ v \in Word
             /\ \E e \in JsSlot : e.v = v /\ J!CodeLoad(m, w, signed)
                  = [m EXCEPT !.stk = Append(Cut(m.stk, 1), e), !.mem = m.mem]
<1> DEFINE a == J!Top(m)
           v == Read(m.mem, a.v, w, signed)
           e == IF w = 8 THEN J!Big(v) ELSE J!Num(v)
<1>1. m \in JsPrograms /\ m.mem \in Memories
  BY DEF JsInv, JsPrograms
<1>2. v \in Word
  BY <1>1, MemoryAssumption
<1>3. J!Number(a) = a.v
  BY AddressesFit DEF J!Number
<1>4. J!memory_read_expr(m, a, w, signed) = e
  BY <1>3 DEF J!memory_read_expr
<1> HIDE DEF a, v
<1>5. e \in JsSlot /\ e.v = v
  BY <1>2 DEF JsSlot, J!Big, J!Num
<1> HIDE DEF e
<1>6. J!CodeLoad(m, w, signed) = J!Push([m EXCEPT !.stk = Cut(m.stk, 1)], e)
  <2>1. J!Helper(J!Let(m, {"__addr"})) = m
    BY JsBlocks
  <2> QED
    BY <1>4, <2>1 DEF J!CodeLoad, J!DropN, Cut, a
<1>7. J!Push([m EXCEPT !.stk = Cut(m.stk, 1)], e) = [m EXCEPT !.stk = Append(Cut(m.stk, 1), e), !.mem = m.mem]
  BY <1>1 DEF J!Push, JsPrograms
<1>8. \E x \in JsSlot : x.v = v /\ J!CodeLoad(m, w, signed)
        = [m EXCEPT !.stk = Append(Cut(m.stk, 1), x), !.mem = m.mem]
  BY <1>5, <1>6, <1>7, Zenon
<1> QED
  BY <1>2, <1>8, Zenon DEF v, a

\* A store writes the value on top to the address below it, or throws.
LEMMA JsStores ==
  ASSUME JsInv, m.status = "run", Len(m.stk) >= 2, J!Below(m).v \in Addresses,
         NEW w \in Widths, w # 8 => J!Number(J!Top(m)) = J!Top(m).v
  PROVE  LET mem == Write(m.mem, J!Below(m).v, w, J!Top(m).v)
         IN  /\ mem \in Memories
             /\ \/ J!CodeStore(m, w) = [m EXCEPT !.stk = Cut(m.stk, 2), !.mem = mem]
                \/ J!CodeStore(m, w) = [m EXCEPT !.stk = Cut(m.stk, 2), !.status = "trap"]
<1> DEFINE a == J!Below(m)
           y == J!Top(m)
           mem == Write(m.mem, a.v, w, y.v)
           p == [m EXCEPT !.stk = Cut(m.stk, 2)]
<1>1. m \in JsPrograms /\ m.mem \in Memories /\ m.stk \in Seq(JsSlot)
  BY DEF JsInv, JsPrograms
<1>2. y.v \in Word
  <2>1. Len(m.stk) \in 1..Len(m.stk)
    BY <1>1
  <2>2. y \in JsSlot
    BY <1>1, <2>1, JsOperands DEF J!Top
  <2> QED
    BY <2>2 DEF JsSlot
<1>3. mem \in Memories
  BY <1>1, <1>2, MemoryAssumption
<1>4. J!Number(a) = a.v
  BY AddressesFit DEF J!Number
<1>5. (w # 8 => J!Number(y) = y.v)
  OBVIOUS
<1> HIDE DEF a, y
<1>6. J!CodeStore(m, w) = J!memory_write_expr(p, a, w, y)
  BY JsBlocks DEF J!CodeStore, J!DropN, Cut, a, y
<1>7. p.mem = m.mem
  BY <1>1 DEF JsPrograms
<1>8. \/ J!memory_write_expr(p, a, w, y) = [p EXCEPT !.mem = mem]
      \/ J!memory_write_expr(p, a, w, y) = [p EXCEPT !.status = "trap"]
  BY <1>1, <1>4, <1>5, <1>7 DEF J!memory_write_expr, JsPrograms
<1> HIDE DEF mem
<1>9. /\ [p EXCEPT !.mem = mem] = [m EXCEPT !.stk = Cut(m.stk, 2), !.mem = mem]
      /\ [p EXCEPT !.status = "trap"] = [m EXCEPT !.stk = Cut(m.stk, 2), !.status = "trap"]
  BY <1>1 DEF JsPrograms
<1> QED
  BY <1>3, <1>6, <1>8, <1>9 DEF mem, a, y

\* A step of JavaScript is a step of the stack machine, or throws.
LEMMA JsStep ==
  ASSUME JsInv, IsJs, J!Next
  PROVE  JsInv' /\ Machine!Next
<1>0. U64s \subseteq Word /\ U32s \subseteq Half /\ Half \subseteq Word
  BY ScalarAssumption, HalfAssumption
<1>1. ASSUME NEW op, NEW code, J!Emit(op, code)
      PROVE  m.status = "run" /\ last' = op /\ m' = code /\ backend' = backend
  BY <1>1 DEF J!Emit
<1>2. m \in JsPrograms /\ m.stk \in Seq(JsSlot) /\ m.mem \in Memories
  BY DEF JsInv, JsPrograms
<1>3. /\ Len(m.stk) \in Nat
      /\ Len(Vals(m.stk)) = Len(m.stk)
      /\ \A e \in JsSlot :
           Append(m.stk, e) \in Seq(JsSlot) /\ Vals(Append(m.stk, e)) = Append(Vals(m.stk), e.v)
      /\ \A n \in 0..Len(m.stk) :
           Cut(m.stk, n) \in Seq(JsSlot) /\ Vals(Cut(m.stk, n)) = Cut(Vals(m.stk), n)
      /\ \A i \in 1..Len(m.stk) : m.stk[i] \in JsSlot /\ Vals(m.stk)[i] = m.stk[i].v
  BY <1>2, JsOperands
<1>4. ASSUME NEW e \in JsSlot, Len(m.stk) >= 1
      PROVE  /\ Append(Cut(m.stk, 1), e) \in Seq(JsSlot)
             /\ Vals(Append(Cut(m.stk, 1), e)) = Append(Cut(Vals(m.stk), 1), e.v)
  <2>1. Cut(m.stk, 1) \in Seq(JsSlot) /\ Vals(Cut(m.stk, 1)) = Cut(Vals(m.stk), 1)
    BY <1>3, <1>4
  <2> QED
    BY <2>1, JsOperands
<1>5. \A v \in Word : J!Big(v) \in JsSlot /\ J!Big(v).v = v
  BY DEF J!Big, JsSlot
<1>6. ASSUME NEW v \in Word, m.status = "run", backend' = backend, m' = J!Push(m, J!Big(v))
      PROVE  /\ JsInv' /\ m'.status = "run" /\ m'.mem = m.mem
             /\ MStack = Vals(m.stk) /\ MStack' = Append(MStack, v)
             /\ MAt = Nowhere /\ MAt' = Nowhere /\ MOp' = last' /\ IsJs'
  <2> DEFINE x == Append(m.stk, J!Big(v))
  <2>1. x \in Seq(JsSlot) /\ Vals(x) = Append(Vals(m.stk), v)
    BY <1>3, <1>5
  <2>2. m' = [m EXCEPT !.stk = x, !.mem = m.mem]
    BY <1>2, <1>6 DEF J!Push, JsPrograms
  <2> HIDE DEF x
  <2>3. /\ JsInv' /\ m'.status = "run" /\ m'.mem = m.mem
        /\ MStack = Vals(m.stk) /\ MStack' = Vals(x)
        /\ MAt = Nowhere /\ MAt' = Nowhere /\ MOp' = last' /\ IsJs'
    BY <1>2, <1>6, <2>1, <2>2, JsContinues
  <2> QED
    BY <2>1, <2>3
<1>7. ASSUME NEW v \in U64s, J!PushU64(v) PROVE JsInv' /\ Machine!Next
  <2>1. /\ m.status = "run" /\ backend' = backend /\ m' = J!Push(m, J!Big(v)) /\ v \in Word
        /\ last' = [op |-> "PushU64", width |-> 0, signed |-> FALSE, value |-> v]
    BY <1>7, <1>0, <1>1 DEF J!PushU64, J!Op, J!Promise!Op
  <2>2. /\ JsInv' /\ m'.status = "run" /\ m'.mem = m.mem
        /\ MStack' = Append(MStack, v)
        /\ MAt = Nowhere /\ MAt' = Nowhere /\ MOp' = last' /\ IsJs'
    BY <1>6, <2>1
  <2>3. Machine!PushU64(v)
    BY <2>1, <2>2 DEF Machine!PushU64, Machine!Push, Machine!Op, MStack, MAt, MOp
  <2> QED
    BY <2>1, <2>2, <2>3 DEF Machine!Next
<1>8. ASSUME NEW v \in U32s, J!PushU32(v) PROVE JsInv' /\ Machine!Next
  <2>1. /\ m.status = "run" /\ backend' = backend /\ m' = J!Push(m, J!Big(v)) /\ v \in Half /\ v \in Word
        /\ last' = [op |-> "PushU32", width |-> 0, signed |-> FALSE, value |-> v]
    BY <1>8, <1>0, <1>1 DEF J!PushU32, J!Op, J!Promise!Op
  <2>2. /\ JsInv' /\ m'.status = "run" /\ m'.mem = m.mem
        /\ MStack' = Append(MStack, v)
        /\ MAt = Nowhere /\ MAt' = Nowhere /\ MOp' = last' /\ IsJs'
    BY <1>6, <2>1
  <2>3. Machine!PushU32(v)
    BY <2>1, <2>2 DEF Machine!PushU32, Machine!Push, Machine!Op, MStack, MAt, MOp
  <2> QED
    BY <2>1, <2>2, <2>3 DEF Machine!Next
<1>9. ASSUME J!Pop PROVE JsInv' /\ Machine!Next
  <2> DEFINE x == Cut(m.stk, 1)
  <2>1. /\ m.status = "run" /\ backend' = backend /\ Len(m.stk) >= 1
        /\ m' = [m EXCEPT !.stk = x, !.mem = m.mem]
        /\ last' = [op |-> "Pop", width |-> 0, signed |-> FALSE, value |-> 0]
    BY <1>9, <1>1, <1>2
    DEF J!Pop, J!Depth, J!Plain, J!Promise!Plain, J!Promise!Op, J!DropN, Cut, JsPrograms
  <2>2. x \in Seq(JsSlot) /\ Vals(x) = Cut(Vals(m.stk), 1) /\ Vals(m.stk) # <<>>
    BY <1>3, <2>1
  <2> HIDE DEF x
  <2>3. /\ JsInv' /\ m'.status = "run" /\ m'.mem = m.mem
        /\ MStack = Vals(m.stk) /\ MStack' = Vals(x)
        /\ MAt = Nowhere /\ MAt' = Nowhere /\ MOp' = last' /\ IsJs'
    BY <1>2, <2>1, <2>2, JsContinues
  <2>4. Machine!Pop
    BY <2>1, <2>2, <2>3 DEF Machine!Pop, Machine!Drop, Machine!Plain, Machine!Op, MStack, MAt, MOp, Cut
  <2> QED
    BY <2>3, <2>4 DEF Machine!Next
<1>10. ASSUME NEW w \in Widths, NEW signed \in BOOLEAN, J!Load(w, signed)
       PROVE  JsInv' /\ Machine!Next
  <2> DEFINE v == Read(m.mem, J!Top(m).v, w, signed)
  <2>1. /\ m.status = "run" /\ backend' = backend /\ Len(m.stk) >= 1 /\ J!Top(m).v \in Addresses
        /\ m' = J!CodeLoad(m, w, signed)
        /\ last' = [op |-> "Load", width |-> w, signed |-> signed, value |-> 0]
    BY <1>10, <1>1 DEF J!Load, J!Depth, J!Op, J!Promise!Op
  <2>2. PICK e \in JsSlot :
          e.v = v /\ J!CodeLoad(m, w, signed)
            = [m EXCEPT !.stk = Append(Cut(m.stk, 1), e), !.mem = m.mem]
    BY <2>1, JsLoads
  <2> DEFINE x == Append(Cut(m.stk, 1), e)
  <2>3. /\ x \in Seq(JsSlot) /\ Vals(x) = Append(Cut(Vals(m.stk), 1), v)
        /\ m' = [m EXCEPT !.stk = x, !.mem = m.mem]
    BY <1>4, <2>1, <2>2
  <2>4. Vals(m.stk) # <<>> /\ Vals(m.stk)[Len(Vals(m.stk))] = J!Top(m).v
    <3>1. Len(m.stk) \in 1..Len(m.stk)
      BY <1>3, <2>1
    <3> QED
      BY <1>3, <3>1 DEF J!Top
  <2> HIDE DEF x
  <2>5. /\ JsInv' /\ m'.status = "run" /\ m'.mem = m.mem
        /\ MStack = Vals(m.stk) /\ MStack' = Vals(x)
        /\ MAt = Nowhere /\ MAt' = Nowhere /\ MOp' = last' /\ IsJs'
    BY <1>2, <2>1, <2>3, JsContinues
  <2>6. Machine!Load(w, signed)
    BY <2>1, <2>3, <2>4, <2>5
    DEF Machine!Load, Machine!Drop, Machine!Top, Machine!Op, MStack, MAt, MOp, Cut
  <2> QED
    BY <2>5, <2>6 DEF Machine!Next
<1>11. ASSUME NEW w \in Widths, J!Store(w) PROVE JsInv' /\ Machine!Next
  <2> DEFINE mem == Write(m.mem, J!Below(m).v, w, J!Top(m).v)
             x == Cut(m.stk, 2)
  <2>1. /\ m.status = "run" /\ backend' = backend /\ Len(m.stk) >= 2 /\ J!Below(m).v \in Addresses
        /\ (w # 8 => J!Number(J!Top(m)) = J!Top(m).v)
        /\ m' = J!CodeStore(m, w)
        /\ last' = [op |-> "Store", width |-> w, signed |-> FALSE, value |-> 0]
    BY <1>11, <1>1 DEF J!Store, J!Depth, J!Op, J!Promise!Op
  <2>2. /\ mem \in Memories
        /\ \/ m' = [m EXCEPT !.stk = x, !.mem = mem]
           \/ m' = [m EXCEPT !.stk = x, !.status = "trap"]
    BY <2>1, JsStores
  <2>3. /\ x \in Seq(JsSlot) /\ Vals(x) = Cut(Vals(m.stk), 2) /\ Len(Vals(m.stk)) >= 2
        /\ Vals(m.stk)[Len(Vals(m.stk))] = J!Top(m).v
        /\ Vals(m.stk)[Len(Vals(m.stk)) - 1] = J!Below(m).v
    <3>1. Len(m.stk) \in 1..Len(m.stk) /\ Len(m.stk) - 1 \in 1..Len(m.stk) /\ 2 \in 0..Len(m.stk)
      BY <1>3, <2>1
    <3> QED
      BY <1>3, <2>1, <3>1 DEF J!Top, J!Below
  <2>4. CASE m' = [m EXCEPT !.stk = x, !.mem = mem]
    <3> HIDE DEF x
    <3>1. mem = Write(m.mem, J!Below(m).v, w, J!Top(m).v)
      OBVIOUS
    <3> HIDE DEF mem
    <3>2. /\ JsInv' /\ m'.status = "run" /\ m'.mem = mem
          /\ MStack = Vals(m.stk) /\ MStack' = Vals(x)
          /\ MAt = Nowhere /\ MAt' = Nowhere /\ MOp' = last' /\ IsJs'
      BY <2>1, <2>2, <2>3, <2>4, JsContinues
    <3>3. Machine!Store(w)
      BY <2>1, <2>3, <3>1, <3>2
      DEF Machine!Store, Machine!Drop, Machine!Top, Machine!Below, Machine!Op, MStack, MAt, MOp, Cut
    <3> QED
      BY <3>2, <3>3 DEF Machine!Next
  <2>5. CASE m' = [m EXCEPT !.stk = x, !.status = "trap"]
    <3> HIDE DEF x
    <3>1. m' \in JsPrograms /\ m'.status = "trap" /\ m'.at = m.at /\ m'.mem = m.mem
      BY <1>2, <2>3, <2>5 DEF JsPrograms
    <3> QED
      BY <2>1, <3>1, JsTraps
  <2> QED
    BY <2>2, <2>4, <2>5
<1>12. ASSUME J!Ecall PROVE JsInv' /\ Machine!Next
  <2>0. PICK answer \in U64s :
          J!Depth >= 1 /\ J!Emit(J!Plain("Ecall"), J!CodeEcall(m, J!Big(answer)))
    BY <1>12 DEF J!Ecall
  <2> DEFINE x == Append(Cut(m.stk, 1), J!Big(answer))
  <2>1. /\ m.status = "run" /\ backend' = backend /\ Len(m.stk) >= 1 /\ answer \in Word
        /\ m' = J!CodeEcall(m, J!Big(answer))
        /\ last' = [op |-> "Ecall", width |-> 0, signed |-> FALSE, value |-> 0]
    BY <1>0, <1>1, <2>0 DEF J!Depth, J!Plain, J!Promise!Plain, J!Promise!Op
  <2>2. m' = [m EXCEPT !.stk = x, !.mem = m.mem]
    <3>1. J!Helper(J!Let(m, {"__ecall", "__ret"})) = m
      BY JsBlocks
    <3> QED
      BY <1>2, <2>1, <3>1 DEF J!CodeEcall, J!DropN, Cut, JsPrograms
  <2>3. x \in Seq(JsSlot) /\ Vals(x) = Append(Cut(Vals(m.stk), 1), answer) /\ Vals(m.stk) # <<>>
    <3>1. J!Big(answer) \in JsSlot /\ J!Big(answer).v = answer
      BY <1>5, <2>1
    <3>2. /\ x \in Seq(JsSlot) /\ Vals(x) = Append(Cut(Vals(m.stk), 1), J!Big(answer).v)
      BY <1>4, <2>1, <3>1
    <3> QED
      BY <1>3, <2>1, <3>1, <3>2
  <2> HIDE DEF x
  <2>4. /\ JsInv' /\ m'.status = "run" /\ m'.mem = m.mem
        /\ MStack = Vals(m.stk) /\ MStack' = Vals(x)
        /\ MAt = Nowhere /\ MAt' = Nowhere /\ MOp' = last' /\ IsJs'
    BY <1>2, <2>1, <2>2, <2>3, JsContinues
  <2>5. Machine!Ecall
    BY <2>1, <2>3, <2>4
    DEF Machine!Ecall, Machine!Drop, Machine!Plain, Machine!Op, MStack, MAt, MOp, Cut
  <2> QED
    BY <2>4, <2>5 DEF Machine!Next
<1>13. ASSUME NEW op, J!Emit(op, J!CodeTrap(m)) PROVE JsInv' /\ Machine!Next
  <2>1. /\ m.status = "run" /\ backend' = backend /\ m' \in JsPrograms
        /\ m'.status = "trap" /\ m'.at = m.at /\ m'.mem = m.mem
    BY <1>1, <1>2, <1>13 DEF J!CodeTrap, JsPrograms
  <2> QED
    BY <2>1, JsTraps
<1>14. ASSUME NEW h \in Helpers, J!TailCall(h) PROVE JsInv' /\ Machine!Next
  <2>1. /\ m.status = "run" /\ backend' = backend /\ m' = J!CodeTailCall(m, h)
        /\ last' = [op |-> "TailCall", width |-> 0, signed |-> FALSE, value |-> h]
    BY <1>14, <1>1 DEF J!TailCall, J!Op, J!Promise!Op
  <2>2. m' = [m EXCEPT !.status = "tail", !.at = h]
    BY <2>1 DEF J!CodeTailCall, JsInv, Scoped
  <2>3. m' \in JsPrograms /\ m'.status = "tail" /\ m'.mem = m.mem /\ m'.at = h
    BY <1>2, <2>2 DEF JsPrograms
  <2>4. JsInv'
    BY <2>1, <2>3 DEF JsInv
  <2>5. Machine!TailCall(h)
    BY <2>1, <2>3, JsView DEF Machine!TailCall, Machine!Leave, Machine!Op, MStack, MAt, MOp
  <2> QED
    BY <2>4, <2>5 DEF Machine!Next
<1>15. ASSUME J!Finish PROVE JsInv' /\ Machine!Next
  <2>1. /\ m.status = "run" /\ backend' = backend /\ m' = [m EXCEPT !.status = "done"]
        /\ last' = [op |-> "finish", width |-> 0, signed |-> FALSE, value |-> 0]
    BY <1>15, <1>1 DEF J!Finish, J!Plain, J!Promise!Plain, J!Promise!Op
  <2>2. m' \in JsPrograms /\ m'.status = "done" /\ m'.mem = m.mem /\ m'.at = Nowhere
    BY <1>2, <2>1 DEF JsPrograms, JsInv
  <2>3. JsInv'
    BY <2>1, <2>2 DEF JsInv
  <2>4. Machine!Finish
    BY <2>1, <2>2, JsView DEF Machine!Finish, Machine!Leave, Machine!Plain, Machine!Op, MStack, MAt, MOp
  <2> QED
    BY <2>3, <2>4 DEF Machine!Next
<1>16. ASSUME NEW t, J!Jump(t) PROVE JsInv' /\ Machine!Next
  BY <1>13, <1>16 DEF J!Jump
<1>17. ASSUME J!Trap PROVE JsInv' /\ Machine!Next
  BY <1>13, <1>17 DEF J!Trap
<1> QED
  BY <1>7, <1>8, <1>9, <1>10, <1>11, <1>12, <1>14, <1>15, <1>16, <1>17, Zenon DEF J!Next

-----------------------------------------------------------------------------
(***************************************************************************)
(* All backends                                                            *)
(***************************************************************************)
\* A native backend is none of the other two.
LEMMA NativeIsNative ==
  ASSUME NativeInv
  PROVE  ~IsWax /\ ~IsJs
BY BackendAssumption DEF NativeInv, IsWax, IsJs

\* A step of a native machine is that of the stack machine, seen among the
\* other backends.
LEMMA NativeView ==
  ASSUME NativeInv, NativeInv', Promise!Next
  PROVE  Machine!Next
<1>1. ~IsWax /\ ~IsJs /\ ~IsWax' /\ ~IsJs'
  BY BackendAssumption DEF NativeInv, IsWax, IsJs
<1>2. /\ MStack = AbsStack /\ MStack' = AbsStack' /\ MAt = AbsAt /\ MAt' = AbsAt'
      /\ MOp = last /\ MOp' = last'
  BY <1>1 DEF MStack, MAt, MOp
<1>3. \A v \in Word : Promise!PushU64(v) => Machine!PushU64(v)
  BY <1>1, <1>2 DEF Promise!PushU64, Promise!Push, Promise!Op,
    Machine!PushU64, Machine!Push, Machine!Op, MStack, MAt, MOp
<1>4. \A v \in Half : Promise!PushU32(v) => Machine!PushU32(v)
  BY <1>1, <1>2 DEF Promise!PushU32, Promise!Push, Promise!Op,
    Machine!PushU32, Machine!Push, Machine!Op, MStack, MAt, MOp
<1>5. Promise!Pop => Machine!Pop
  BY <1>1, <1>2 DEF Promise!Pop, Promise!Drop, Promise!Plain, Promise!Op,
    Machine!Pop, Machine!Drop, Machine!Plain, Machine!Op, MStack, MAt, MOp
<1>6. \A w \in Widths, signed \in BOOLEAN : Promise!Load(w, signed) => Machine!Load(w, signed)
  BY <1>1, <1>2 DEF Promise!Load, Promise!Top, Promise!Drop, Promise!Op,
    Machine!Load, Machine!Top, Machine!Drop, Machine!Op, MStack, MAt, MOp
<1>7. \A w \in Widths : Promise!Store(w) => Machine!Store(w)
  BY <1>1, <1>2 DEF Promise!Store, Promise!Top, Promise!Below, Promise!Drop, Promise!Op,
    Machine!Store, Machine!Top, Machine!Below, Machine!Drop, Machine!Op, MStack, MAt, MOp
<1>8. Promise!Ecall => Machine!Ecall
  BY <1>1, <1>2 DEF Promise!Ecall, Promise!Drop, Promise!Plain, Promise!Op,
    Machine!Ecall, Machine!Drop, Machine!Plain, Machine!Op, MStack, MAt, MOp
<1>9. \A how, where : Promise!Leave(how, where) => Machine!Leave(how, where)
  BY <1>1, <1>2 DEF Promise!Leave, Machine!Leave, MStack, MAt, MOp
<1>10. /\ \A t \in Targets : Promise!Jump(t) => Machine!Jump(t)
       /\ \A h \in Helpers : Promise!TailCall(h) => Machine!TailCall(h)
  BY <1>2, <1>9 DEF Promise!Jump, Promise!TailCall, Promise!Op,
    Machine!Jump, Machine!TailCall, Machine!Op, MOp
<1>11. (Promise!Trap => Machine!Trap) /\ (Promise!Finish => Machine!Finish)
  BY <1>2, <1>9 DEF Promise!Trap, Promise!Finish, Promise!Plain, Promise!Op,
    Machine!Trap, Machine!Finish, Machine!Plain, Machine!Op, MOp
<1> QED
  BY <1>3, <1>4, <1>5, <1>6, <1>7, <1>8, <1>10, <1>11, Zenon DEF Promise!Next, Machine!Next

\* What holds of the code of each backend, in any run.
CodeInv ==
  /\ IsWax => WaxInv
  /\ IsJs => JsInv
  /\ ~IsWax /\ ~IsJs => NativeInv

\* Code starts as the stack machine does.
LEMMA CodeStarts ==
  ASSUME WaxConfigs \subseteq NoScratch, JsConfigs \subseteq Scoped, MCInit
  PROVE  CodeInv /\ Machine!Init
<1> USE DEF Machine!Init, Machine!Plain, Machine!Op
<1>1. CASE Init
  <2>1. NativeInv /\ Promise!Init
    BY <1>1, InitNativeInv, InitImplements
  <2>2. ~IsWax /\ ~IsJs
    BY <2>1, NativeIsNative
  <2> QED
    BY <2>1, <2>2 DEF CodeInv, Promise!Init, Promise!Plain, Promise!Op
<1>2. CASE W!Init(WaxConfigs)
  <2>1. PICK mem \in StartMemories :
          m = [stk |-> <<>>, local |-> [addr |-> 0, value |-> 0], mem |-> mem, status |-> "run"]
    BY <1>2 DEF W!Init
  <2>2. backend \in NoScratch /\ IsWax /\ ~IsJs
    BY <1>2 DEF W!Init, NoScratch, IsWax, IsJs
  <2>3. mem \in Memories
    BY MemoryAssumption
  <2>4. m \in WaxFunctions /\ m.stk \in Seq(WaxSlot)
    BY <2>1, <2>3 DEF WaxFunctions
  <2>5. W!AbsStack = <<>> /\ W!AbsOp = last
    BY <2>1 DEF W!AbsStack, W!AbsOp
  <2>6. last = [op |-> "none", width |-> 0, signed |-> FALSE, value |-> 0]
    BY <1>2 DEF W!Init, W!Plain, W!Promise!Plain, W!Promise!Op
  <2> QED
    BY <2>1, <2>2, <2>3, <2>4, <2>5, <2>6 DEF CodeInv, WaxInv
<1>3. CASE J!Init(JsConfigs)
  <2>1. PICK mem \in StartMemories :
          m = [stk |-> <<>>, declared |-> {}, mem |-> mem, status |-> "run", at |-> Nowhere]
    BY <1>3 DEF J!Init
  <2>2. backend \in Scoped /\ IsJs /\ ~IsWax
    BY <1>3 DEF J!Init, Scoped, IsWax, IsJs
  <2>3. mem \in Memories
    BY MemoryAssumption
  <2>4. m \in JsPrograms
    BY <2>1, <2>3 DEF JsPrograms
  <2>5. J!AbsStack = <<>> /\ J!AbsOp = last
    BY <2>1 DEF J!AbsStack, J!AbsOp
  <2>6. last = [op |-> "none", width |-> 0, signed |-> FALSE, value |-> 0]
    BY <1>3 DEF J!Init, J!Plain, J!Promise!Plain, J!Promise!Op
  <2> QED
    BY <2>1, <2>2, <2>3, <2>4, <2>5, <2>6 DEF CodeInv, JsInv
<1> QED
  BY <1>1, <1>2, <1>3 DEF MCInit, NoCode

\* A step of the code of any backend, or one that is not about code.
LEMMA CodeSteps ==
  ASSUME CodeInv, [MCNext]_<<part, vars, memoryVars, tableVars, wasiVars>>
  PROVE  /\ CodeInv'
         /\ ScalarsAlike => [part = "code" => [Machine!Next]_(Machine!vars)]_vars
<1>1. CASE NativeNext
  <2>1. NativeInv /\ Next
    BY <1>1 DEF NativeNext, CodeInv
  <2>2. NativeInv'
    BY <2>1, NextNativeInv
  <2>3. CodeInv'
    <3>1. ~IsWax' /\ ~IsJs'
      BY <2>2, BackendAssumption DEF NativeInv, IsWax, IsJs
    <3> QED
      BY <2>2, <3>1 DEF CodeInv
  <2>4. ScalarsAlike => [Machine!Next]_(Machine!vars)
    <3>1. ScalarsAlike => [Promise!Next]_(Promise!vars)
      BY <2>1, NextImplements
    <3>2. UNCHANGED Promise!vars => UNCHANGED Machine!vars
      <4>1. ~IsWax /\ ~IsJs /\ ~IsWax' /\ ~IsJs'
        BY <2>1, <2>2, BackendAssumption DEF NativeInv, IsWax, IsJs
      <4> QED
        BY <4>1 DEF Promise!vars, Machine!vars
    <3> QED
      BY <2>1, <2>2, <3>1, <3>2, NativeView
  <2> QED
    BY <2>3, <2>4
<1>2. CASE WaxNext
  <2>1. IsWax /\ WaxInv /\ W!Next /\ backend' = backend
    <3>1. IsWax /\ WaxInv /\ W!Next
      BY <1>2 DEF WaxNext, CodeInv
    <3>2. W!Next => backend' = backend
      BY DEF W!Next, W!PushU64, W!PushU32, W!Pop, W!Load, W!Store, W!Ecall, W!Jump, W!TailCall,
        W!Trap, W!Finish, W!Emit
    <3> QED
      BY <3>1, <3>2
  <2>2. WaxInv' /\ Machine!Next
    BY <2>1, WaxStep
  <2>3. IsWax' /\ ~IsJs'
    BY <2>1 DEF IsWax, IsJs
  <2> QED
    BY <2>2, <2>3 DEF CodeInv
<1>3. CASE JsNext
  <2>1. IsJs /\ JsInv /\ J!Next /\ backend' = backend
    <3>1. IsJs /\ JsInv /\ J!Next
      BY <1>3 DEF JsNext, CodeInv
    <3>2. J!Next => backend' = backend
      BY DEF J!Next, J!PushU64, J!PushU32, J!Pop, J!Load, J!Store, J!Ecall, J!Jump, J!TailCall,
        J!Trap, J!Finish, J!Emit
    <3> QED
      BY <3>1, <3>2
  <2>2. JsInv' /\ Machine!Next
    BY <2>1, JsStep
  <2>3. IsJs' /\ ~IsWax'
    BY <2>1 DEF IsWax, IsJs
  <2> QED
    BY <2>2, <2>3 DEF CodeInv
<1>4. CASE UNCHANGED vars
  <2>1. backend' = backend /\ m' = m /\ ops' = ops
    BY <1>4 DEF vars
  <2>2. /\ IsWax' = IsWax /\ IsJs' = IsJs /\ WaxInv' = WaxInv /\ JsInv' = JsInv
        /\ NativeInv => NativeInv'
    <3>1. IsWax' = IsWax /\ IsJs' = IsJs /\ WaxInv' = WaxInv /\ JsInv' = JsInv
      BY <2>1 DEF IsWax, IsJs, WaxInv, JsInv
    <3>2. NativeInv => NativeInv'
      BY <1>4, NextNativeInv
    <3> QED
      BY <3>1, <3>2
  <2> QED
    BY <1>4, <2>2 DEF CodeInv
<1> QED
  BY <1>1, <1>2, <1>3, <1>4 DEF MCNext, TablesNext, CallsNext

\* What a backend emits for a program does what OsOp says of it, for programs
\* of any length, on any machine, memory and values: the three native
\* backends, WebAssembly and JavaScript (OsOp of os-target-core and the five
\* implementations of it).  WebAssembly may trap and JavaScript throw instead.
\* The hypotheses leave out what is known not to: 32-bit scalars that sign
\* extension changes, scratch locals in WebAssembly (Wax_store), and JavaScript
\* without a helper object or with the operations in one block.
THEOREM CodeIsOsOp ==
  ASSUME ScalarsAlike, WaxConfigs \subseteq NoScratch, JsConfigs \subseteq Scoped
  PROVE  MCSpec => EveryBackendImplementsOsOp
<1>1. MCInit => CodeInv /\ Machine!Init
  BY CodeStarts
<1>2. CodeInv /\ [MCNext]_<<part, vars, memoryVars, tableVars, wasiVars>>
        => CodeInv' /\ [part = "code" => [Machine!Next]_(Machine!vars)]_vars
  BY CodeSteps
<1> QED
  BY <1>1, <1>2, PTL DEF MCSpec, EveryBackendImplementsOsOp

-----------------------------------------------------------------------------
(***************************************************************************)
(* System calls                                                            *)
(***************************************************************************)
\* Values of 32 bits.
Words32 == 0..(U32Values - 1)

\* Memory that a guest's call is made in, and the files of its host.
Linear == [Addr -> WasiByte]
WasiFiles == [OpenFds -> [open : BOOLEAN, input : Seq(WasiByte), output : Seq(WasiByte)]]

\* What a guest with system calls is, in any run of recompiled code.
WasiPart ==
  /\ linear \in Linear
  /\ regs \in [a0 : Words32 \cup {-e : e \in Errnos}, a1 : Nat, a2 : Nat]
  /\ wfiles \in WasiFiles
  /\ exited \in Words32 \cup {Running}

\* A factor that is not zero may be cancelled.
LEMMA Cancels ==
  ASSUME NEW b \in Nat \ {0}, NEW q \in Nat, NEW c \in Nat, b * q < b * c
  PROVE  q < c
<1> SUFFICES ASSUME c <= q PROVE FALSE
  OBVIOUS
<1>1. PICK d \in Nat : q = c + d
  <2>1. q - c \in Nat /\ q = c + (q - c)
    OBVIOUS
  <2> QED
    BY <2>1
<1>2. b * q = b * c + b * d
  BY <1>1
<1> DEFINE x == b * q
           y == b * c
           z == b * d
<1>3. x \in Nat /\ y \in Nat /\ z \in Nat /\ x = y + z /\ x < y
  BY <1>1, <1>2
<1> HIDE DEF x, y, z
<1> QED
  BY <1>3

\* The last digit and what is above it.
LEMMA Digit ==
  ASSUME NEW b \in Nat \ {0}, NEW v \in Nat, NEW c \in Nat, v < b * c
  PROVE  /\ v % b \in 0..(b - 1) /\ v \div b \in Nat /\ v \div b < c
         /\ v = (v % b) + b * (v \div b)
<1> DEFINE q == v \div b
           r == v % b
<1>1. q \in Nat /\ r \in 0..(b - 1) /\ v = b * q + r
  OBVIOUS
<1> HIDE DEF q, r
<1>2. b * q < b * c
  <2> DEFINE x == b * q
             y == b * c
  <2>1. x \in Nat /\ y \in Nat /\ v = x + r /\ v < y /\ r \in Nat
    BY <1>1
  <2> HIDE DEF x, y
  <2>2. x < y
    BY <2>1
  <2> QED
    BY <2>2 DEF x, y
<1>3. q < c
  BY <1>1, <1>2, Cancels
<1>4. v = r + b * q
  <2> DEFINE x == b * q
  <2>1. x \in Nat /\ v = x + r /\ r \in Nat
    BY <1>1
  <2> HIDE DEF x
  <2>2. v = r + x
    BY <2>1
  <2> QED
    BY <2>2 DEF x
<1> QED
  BY <1>1, <1>3, <1>4 DEF q, r

\* The four digits of a 32-bit value.
LEMMA Digits ==
  ASSUME NEW b \in Nat \ {0}, NEW v \in Nat, v < b * (b * (b * b))
  PROVE  LET above == v \div b
             upper == above \div b
             top   == upper \div b
         IN  /\ above \in Nat /\ upper \in Nat /\ top \in Nat
             /\ v % b \in 0..(b - 1) /\ above % b \in 0..(b - 1)
             /\ upper % b \in 0..(b - 1) /\ top % b \in 0..(b - 1)
             /\ (v % b) + b * ((above % b) + b * ((upper % b) + b * (top % b))) = v
<1> DEFINE above == v \div b
           upper == above \div b
           top   == upper \div b
<1>1. b * b \in Nat /\ b * (b * b) \in Nat
  OBVIOUS
<1>2. v % b \in 0..(b - 1) /\ above \in Nat /\ above < b * (b * b) /\ v = (v % b) + b * above
  BY <1>1, Digit
<1> HIDE DEF above
<1>3. above % b \in 0..(b - 1) /\ upper \in Nat /\ upper < b * b /\ above = (above % b) + b * upper
  BY <1>1, <1>2, Digit
<1> HIDE DEF upper
<1>4. upper % b \in 0..(b - 1) /\ top \in Nat /\ top < b /\ upper = (upper % b) + b * top
  BY <1>3, Digit
<1> HIDE DEF top
<1>5. top % b = top
  BY <1>4
<1> QED
  BY <1>2, <1>3, <1>4, <1>5 DEF above, upper, top

\* What 32 bits hold.
LEMMA Word32Facts ==
  /\ ByteValues \in Nat \ {0} /\ LastAddress \in Nat /\ U32Values \in Nat \ {0}
  /\ Words32 \subseteq Nat /\ 0 \in Words32
  /\ \A v \in Nat : I32(v) \in Words32
  /\ \A v \in Words32 : \A k \in 0..v : k \in Words32
<1>1. ByteValues \in Nat \ {0} /\ LastAddress \in Nat
  BY WasiAssumption
<1>2. U32Values \in Nat \ {0}
  <2>1. \A x, y \in Nat \ {0} : x * y \in Nat \ {0}
    OBVIOUS
  <2> QED
    BY <1>1, <2>1, Zenon DEF U32Values
<1>3. \A v \in Nat : I32(v) \in Words32
  BY <1>2 DEF I32, Words32
<1> QED
  BY <1>1, <1>2, <1>3 DEF Words32

\* A value that is stored is loaded again, and nothing else changes.
LEMMA StoredWord ==
  ASSUME NEW mem \in Linear, NEW a \in Nat, a + 3 <= LastAddress, NEW v \in Words32
  PROVE  /\ StoreI32(mem, a, v) \in Linear
         /\ LoadI32(StoreI32(mem, a, v), a) = v
         /\ \A b \in Addr : b \notin a..(a + 3) => StoreI32(mem, a, v)[b] = mem[b]
<1> DEFINE s == StoreI32(mem, a, v)
           above == v \div ByteValues
           upper == above \div ByteValues
           top == upper \div ByteValues
           digits == <<v, above, upper, top>>
<1>1. \A b \in Addr : s[b] = IF b \in a..(a + 3) THEN digits[b - a + 1] % ByteValues ELSE mem[b]
  BY DEF StoreI32
<1>2. s = [b \in Addr |-> s[b]]
  BY DEF StoreI32
<1>3. ByteValues \in Nat \ {0} /\ LastAddress \in Nat
  BY Word32Facts
<1>4. v \in Nat /\ v < ByteValues * (ByteValues * (ByteValues * ByteValues))
  <2> DEFINE all == ByteValues * (ByteValues * (ByteValues * ByteValues))
  <2>1. all \in Nat
    BY <1>3
  <2>2. v \in 0..(all - 1)
    BY DEF Words32, U32Values
  <2> HIDE DEF all
  <2>3. v \in Nat /\ v < all
    BY <2>1, <2>2
  <2> QED
    BY <2>3 DEF all
<1>5. /\ v % ByteValues \in WasiByte /\ above % ByteValues \in WasiByte
      /\ upper % ByteValues \in WasiByte /\ top % ByteValues \in WasiByte
      /\ (v % ByteValues) + ByteValues * ((above % ByteValues) + ByteValues *
           ((upper % ByteValues) + ByteValues * (top % ByteValues))) = v
  BY <1>3, <1>4, Digits DEF WasiByte
<1> HIDE DEF s, above, upper, top
<1>6. a \in Addr /\ a + 1 \in Addr /\ a + 2 \in Addr /\ a + 3 \in Addr
  BY <1>3 DEF Addr
<1>7. \A i \in 0..3 : s[a + i] = digits[i + 1] % ByteValues
  <2>1. \A i \in 0..3 : a + i \in Addr /\ a + i \in a..(a + 3) /\ (a + i) - a + 1 = i + 1
    BY <1>3 DEF Addr
  <2> QED
    BY <1>1, <2>1
<1>8. /\ s[a] = v % ByteValues /\ s[a + 1] = above % ByteValues
      /\ s[a + 2] = upper % ByteValues /\ s[a + 3] = top % ByteValues
  <2>1. /\ digits[0 + 1] = v /\ digits[1 + 1] = above
        /\ digits[2 + 1] = upper /\ digits[3 + 1] = top
    OBVIOUS
  <2>2. a + 0 = a /\ 0 \in 0..3 /\ 1 \in 0..3 /\ 2 \in 0..3 /\ 3 \in 0..3
    OBVIOUS
  <2> HIDE DEF digits
  <2> QED
    BY <1>7, <2>1, <2>2
<1>9. ASSUME NEW b \in Addr PROVE s[b] \in WasiByte
  <2>1. CASE b \notin a..(a + 3)
    BY <1>1, <2>1 DEF Linear
  <2>2. CASE b \in a..(a + 3)
    <3>1. b = a \/ b = a + 1 \/ b = a + 2 \/ b = a + 3
      BY <2>2 DEF Addr
    <3> QED
      BY <1>5, <1>8, <3>1
  <2> QED
    BY <2>1, <2>2
<1>10. LoadI32(s, a) = v
  BY <1>5, <1>8 DEF LoadI32
<1>11. s \in Linear
  BY <1>2, <1>9 DEF Linear
<1> QED
  BY <1>1, <1>10, <1>11 DEF s

\* An entry without stores leaves memory alone.
LEMMA NothingStored ==
  ASSUME NEW entry, entry.stores = <<>>, NEW r
  PROVE  Stored(entry, r) = linear
<1> DEFINE All(f) == f = [i \in 0..Len(entry.stores) |->
             IF i = 0 THEN linear
             ELSE StoreI32(f[i - 1], entry.stores[i].addr, I32(r[entry.stores[i].local]))]
           g == [i \in 0..0 |-> linear]
           c == CHOOSE f : All(f)
<1>1. All(g)
  OBVIOUS
<1> HIDE DEF All
<1>2. All(c)
  BY <1>1, Zenon
<1> HIDE DEF c
<1>3. c[Len(entry.stores)] = linear
  BY <1>2 DEF All
<1> QED
  BY <1>3 DEF Stored, All, c

\* A transfer stores its iovec: where the buffer is and how long it is.
LEMMA IovecStored ==
  ASSUME NEW func, NEW r
  PROVE  Stored(Transfer(func), r)
           = StoreI32(StoreI32(linear, iovec_scratch_offset, I32(r.a1)),
                      iovec_scratch_offset + 4, I32(r.a2))
<1> DEFINE entry == Transfer(func)
           s1 == StoreI32(linear, iovec_scratch_offset, I32(r.a1))
           s2 == StoreI32(s1, iovec_scratch_offset + 4, I32(r.a2))
           All(f) == f = [i \in 0..Len(entry.stores) |->
             IF i = 0 THEN linear
             ELSE StoreI32(f[i - 1], entry.stores[i].addr, I32(r[entry.stores[i].local]))]
           g == [i \in 0..2 |-> IF i = 0 THEN linear ELSE IF i = 1 THEN s1 ELSE s2]
           c == CHOOSE f : All(f)
<1>1. /\ Len(entry.stores) = 2
      /\ entry.stores[1] = [addr |-> iovec_scratch_offset, local |-> "a1"]
      /\ entry.stores[2] = [addr |-> iovec_scratch_offset + 4, local |-> "a2"]
  BY DEF Transfer
<1> HIDE DEF entry, s1, s2
<1>2. All(g)
  <2> DEFINE G(i) == IF i = 0 THEN linear
             ELSE StoreI32(g[i - 1], entry.stores[i].addr, I32(r[entry.stores[i].local]))
  <2>1. g[0] = G(0)
    OBVIOUS
  <2>2. g[1] = G(1)
    BY <1>1 DEF s1
  <2>3. g[2] = G(2)
    BY <1>1 DEF s2
  <2>4. \A i \in 0..2 : g[i] = G(i)
    <3>1. \A i \in 0..2 : i = 0 \/ i = 1 \/ i = 2
      OBVIOUS
    <3> HIDE DEF g, G
    <3> QED
      BY <2>1, <2>2, <2>3, <3>1
  <2>5. g = [i \in 0..2 |-> g[i]]
    OBVIOUS
  <2> HIDE DEF g
  <2> QED
    BY <1>1, <2>4, <2>5
<1> HIDE DEF All
<1>3. All(c)
  BY <1>2, Zenon
<1> HIDE DEF c
<1>4. c[0] = linear
  BY <1>1, <1>3 DEF All
<1>5. c[1] = StoreI32(c[0], entry.stores[1].addr, I32(r[entry.stores[1].local]))
  BY <1>1, <1>3 DEF All
<1>6. c[2] = StoreI32(c[1], entry.stores[2].addr, I32(r[entry.stores[2].local]))
  BY <1>1, <1>3 DEF All
<1>7. c[2] = s2
  BY <1>1, <1>4, <1>5, <1>6 DEF s1, s2
<1>8. Stored(entry, r) = c[Len(entry.stores)]
  BY DEF Stored, All, c
<1> QED
  BY <1>1, <1>7, <1>8 DEF entry, s1, s2

\* What the guest sees of memory: all but the scratch area.
GuestMem == [a \in Addr \ Scratch |-> linear[a]]

\* Registers of a guest that makes a call.
CallRegs == [a0 : Fds, a1 : Buffers, a2 : Counts]

\* The arguments that an entry hands on, and the scratch area in memory.
LEMMA CallFacts ==
  ASSUME NEW r \in CallRegs
  PROVE  /\ r.a0 \in Nat /\ r.a1 \in Nat /\ r.a2 \in Nat
         /\ I32(r.a0) \in Words32 /\ I32(r.a1) \in Words32 /\ I32(r.a2) \in Words32
         /\ I32(r.a1)..(I32(r.a1) + I32(r.a2) - 1) \subseteq Addr \ Scratch
         /\ iovec_scratch_offset \in Nat /\ iovec_scratch_offset + 11 <= LastAddress
         /\ \A func : /\ Params(Transfer(func), r)[1] = I32(r.a0)
                      /\ Params(Transfer(func), r)[2] = iovec_scratch_offset
                      /\ Params(Transfer(func), r)[4] = iovec_scratch_offset + 8
         /\ Params(CloseEntry, r)[1] = I32(r.a0)
         /\ Params(Ends, r)[1] = I32(r.a0)
<1>1. r.a0 \in Fds /\ r.a1 \in Buffers /\ r.a2 \in Counts
  BY DEF CallRegs
<1>2. r.a0 \in Nat /\ r.a1 \in Nat /\ r.a2 \in Nat
  BY <1>1, WasiAssumption
<1>3. I32(r.a0) \in Words32 /\ I32(r.a1) \in Words32 /\ I32(r.a2) \in Words32
  BY <1>2, Word32Facts
<1>4. I32(r.a1)..(I32(r.a1) + I32(r.a2) - 1) \subseteq Addr \ Scratch
  BY <1>1, WasiAssumption
<1>5. iovec_scratch_offset \in Nat /\ iovec_scratch_offset + 11 <= LastAddress
  <2>1. iovec_scratch_offset \in Nat /\ iovec_scratch_offset + 11 \in Scratch
    BY WasiAssumption DEF Scratch
  <2>2. iovec_scratch_offset + 11 \in Addr
    BY <2>1, WasiAssumption
  <2> QED
    BY <2>1, <2>2, Word32Facts DEF Addr
<1>6. ASSUME NEW func
      PROVE  /\ Params(Transfer(func), r)[1] = I32(r.a0)
             /\ Params(Transfer(func), r)[2] = iovec_scratch_offset
             /\ Params(Transfer(func), r)[4] = iovec_scratch_offset + 8
  <2> DEFINE ps == Transfer(func).params
  <2>1. /\ ps = <<LocalI64AsI32("a0"), ConstI32(iovec_scratch_offset), ConstI32(1),
                  ConstI32(iovec_scratch_offset + 8)>>
    BY DEF Transfer
  <2>2. DOMAIN ps = 1..4 /\ ps[1] = LocalI64AsI32("a0") /\ ps[2] = ConstI32(iovec_scratch_offset)
        /\ ps[4] = ConstI32(iovec_scratch_offset + 8)
    BY <2>1
  <2> HIDE DEF ps
  <2> QED
    BY <2>2 DEF Params, LocalI64AsI32, ConstI32, ps
<1>7. Params(CloseEntry, r)[1] = I32(r.a0)
  BY DEF Params, CloseEntry, LocalI64AsI32
<1>8. Params(Ends, r)[1] = I32(r.a0)
  BY DEF Params, Ends, LocalI64AsI32
<1> QED
  BY <1>2, <1>3, <1>4, <1>5, <1>6, <1>7, <1>8

\* Memory when a transfer is called: the iovec is in the scratch area and the
\* guest's memory is as it was.
LEMMA Prepared ==
  ASSUME WasiPart, NEW r \in CallRegs, NEW func
  PROVE  /\ Stored(Transfer(func), r) \in Linear
         /\ LoadI32(Stored(Transfer(func), r), iovec_scratch_offset) = I32(r.a1)
         /\ LoadI32(Stored(Transfer(func), r), iovec_scratch_offset + 4) = I32(r.a2)
         /\ \A a \in Addr \ Scratch : Stored(Transfer(func), r)[a] = linear[a]
<1> DEFINE o == iovec_scratch_offset
           s1 == StoreI32(linear, o, I32(r.a1))
           s2 == StoreI32(s1, o + 4, I32(r.a2))
<1>1. Stored(Transfer(func), r) = s2
  BY IovecStored
<1>2. /\ o \in Nat /\ LastAddress \in Nat /\ o + 11 <= LastAddress
      /\ I32(r.a1) \in Words32 /\ I32(r.a2) \in Words32
  BY CallFacts, Word32Facts
<1>3. /\ s1 \in Linear /\ LoadI32(s1, o) = I32(r.a1)
      /\ \A b \in Addr : b \notin o..(o + 3) => s1[b] = linear[b]
  <2>1. linear \in Linear /\ o \in Nat /\ o + 3 <= LastAddress
    BY <1>2 DEF WasiPart
  <2> QED
    BY <1>2, <2>1, StoredWord
<1> HIDE DEF s1
<1>4. /\ s2 \in Linear /\ LoadI32(s2, o + 4) = I32(r.a2)
      /\ \A b \in Addr : b \notin (o + 4)..((o + 4) + 3) => s2[b] = s1[b]
  <2>1. o + 4 \in Nat /\ (o + 4) + 3 <= LastAddress
    BY <1>2
  <2> QED
    BY <1>2, <1>3, <2>1, StoredWord
<1> HIDE DEF s2
<1>5. LoadI32(s2, o) = LoadI32(s1, o)
  <2>1. \A i \in 0..3 : o + i \in Addr /\ o + i \notin (o + 4)..((o + 4) + 3)
    BY <1>2 DEF Addr
  <2>2. s2[o] = s1[o] /\ s2[o + 1] = s1[o + 1] /\ s2[o + 2] = s1[o + 2] /\ s2[o + 3] = s1[o + 3]
    <3>1. o + 0 = o
      BY <1>2
    <3> QED
      BY <1>4, <2>1, <3>1
  <2> QED
    BY <2>2 DEF LoadI32
<1>6. ASSUME NEW a \in Addr \ Scratch PROVE s2[a] = linear[a]
  <2>1. a \notin o..(o + 3) /\ a \notin (o + 4)..((o + 4) + 3)
    BY <1>2 DEF Scratch, Addr
  <2> QED
    BY <1>3, <1>4, <2>1
<1> QED
  BY <1>1, <1>3, <1>4, <1>5, <1>6

\* The files of the host stay files.
LEMMA FilesFacts ==
  ASSUME NEW files \in WasiFiles, NEW fd \in OpenFds
  PROVE  /\ files[fd] \in [open : BOOLEAN, input : Seq(WasiByte), output : Seq(WasiByte)]
         /\ \A input \in Seq(WasiByte) : [files EXCEPT ![fd].input = input] \in WasiFiles
         /\ \A output \in Seq(WasiByte) : [files EXCEPT ![fd].output = output] \in WasiFiles
         /\ [files EXCEPT ![fd].open = FALSE] \in WasiFiles
BY DEF WasiFiles

\* A transfer that fails, or reads, or writes.
LEMMA TransferOutcome ==
  ASSUME WasiPart, NEW r \in CallRegs, NEW func \in {"fd_read", "fd_write"},
         NEW out \in Outcomes(func, Params(Transfer(func), r), Stored(Transfer(func), r)),
         ecall' = [nr |-> IF func = "fd_read" THEN 63 ELSE 64, a0 |-> r.a0, a1 |-> r.a1, a2 |-> r.a2],
         regs' = [r EXCEPT !["a0"] = Result(Transfer(func), out)],
         linear' = out.mem, wfiles' = out.files, exited' = exited
  PROVE  WasiPart' /\ (Linux!ReadCall \/ Linux!WriteCall)
<1> DEFINE entry == Transfer(func)
           mem == Stored(entry, r)
           p == Params(entry, r)
           o == iovec_scratch_offset
           fd == I32(r.a0)
           at == I32(r.a1)
           len == I32(r.a2)
           answer == Result(entry, out)
<1>1. /\ p[1] = fd /\ p[2] = o /\ p[4] = o + 8 /\ o \in Nat /\ o + 11 <= LastAddress
      /\ at \in Words32 /\ len \in Words32 /\ at..(at + len - 1) \subseteq Addr \ Scratch
      /\ r.a1 \in Nat /\ r.a2 \in Nat /\ LastAddress \in Nat /\ at \in Nat /\ len \in Nat
      /\ \A k \in 0..len : k \in Words32
  BY CallFacts, Word32Facts
<1>2. /\ mem \in Linear /\ LoadI32(mem, o) = at /\ LoadI32(mem, o + 4) = len
      /\ \A a \in Addr \ Scratch : mem[a] = linear[a]
  BY Prepared
<1>3. regs'.a0 = answer /\ regs'.a1 = r.a1 /\ regs'.a2 = r.a2
      /\ regs' = [a0 |-> answer, a1 |-> r.a1, a2 |-> r.a2]
  BY DEF CallRegs
<1>4. Linux!fd = fd /\ Linux!buf = at /\ Linux!n = len
  BY DEF Linux!fd, Linux!buf, Linux!n
<1>5. ecall'.nr = IF func = "fd_read" THEN 63 ELSE 64
  OBVIOUS
<1>6. /\ answer = IF out.result # 0 THEN -out.result ELSE LoadI32(out.mem, o + 8)
  <2>1. o + 8 # NoOffset
    BY <1>1 DEF NoOffset
  <2> QED
    BY <2>1 DEF Result, Transfer
<1> HIDE DEF entry, mem, p, answer, fd, at, len
<1>7. CASE out \in Failed(mem)
  <2>1. out.result \in Errnos /\ out.mem = mem /\ out.files = wfiles
    BY <1>7 DEF Failed
  <2>2. out.result \in Nat \ {0}
    BY <2>1, WasiAssumption
  <2>3. answer = -out.result /\ answer < 0 /\ answer \in {-e : e \in Errnos}
    BY <1>6, <2>1, <2>2
  <2>4. WasiPart'
    BY <1>1, <1>2, <1>3, <2>1, <2>3 DEF WasiPart
  <2>5. GuestMem' = GuestMem
    BY <1>2, <2>1 DEF GuestMem
  <2>6. Linux!Fails
    BY <1>3, <2>1, <2>3, <2>5 DEF Linux!Fails, GuestMem
  <2> QED
    BY <1>5, <2>4, <2>6 DEF Linux!ReadCall, Linux!WriteCall
<1>8. CASE out \notin Failed(mem)
  <2>1. OpenFile(fd)
    BY <1>1, <1>8 DEF Outcomes, mem, p, entry
  <2>2. fd \in OpenFds /\ wfiles[fd].open /\ Linux!IsOpen
    BY <1>4, <2>1 DEF OpenFile, WasiPart, WasiFiles, Linux!IsOpen
  <2>3. wfiles[fd] \in [open : BOOLEAN, input : Seq(WasiByte), output : Seq(WasiByte)]
    BY <2>2, FilesFacts DEF WasiPart
  <2>4. CASE func = "fd_read"
    <3> DEFINE got(k) == [a \in Addr |-> IF a \in at..(at + k - 1) THEN wfiles[fd].input[a - at + 1] ELSE mem[a]]
    <3>1. out \in fd_read(mem, fd, o, o + 8)
      BY <1>1, <1>8, <2>4 DEF Outcomes, mem, p, entry
    <3>2. PICK k \in {k \in 0..len : k <= Len(wfiles[fd].input)} :
            out = [result |-> 0, mem |-> StoreI32(got(k), o + 8, k),
                   files |-> [wfiles EXCEPT ![fd].input = SubSeq(@, k + 1, Len(@))]]
      BY <1>2, <3>1 DEF fd_read
    <3> DEFINE g == got(k)
               rest == SubSeq(wfiles[fd].input, k + 1, Len(wfiles[fd].input))
    <3>3. k \in Words32 /\ k <= len /\ k <= Len(wfiles[fd].input) /\ Len(wfiles[fd].input) \in Nat
      <4>1. k \in 0..len /\ k <= Len(wfiles[fd].input)
        OBVIOUS
      <4>2. Len(wfiles[fd].input) \in Nat
        BY <2>3
      <4> QED
        BY <1>1, <4>1, <4>2
    <3>4. \A a \in Addr : g[a] = IF a \in at..(at + k - 1) THEN wfiles[fd].input[a - at + 1] ELSE mem[a]
      OBVIOUS
    <3>5. g \in Linear
      <4>1. \A i \in 1..Len(wfiles[fd].input) : wfiles[fd].input[i] \in WasiByte
        BY <2>3
      <4>2. \A a \in Addr : a \in at..(at + k - 1) => a - at + 1 \in 1..Len(wfiles[fd].input)
        <5> DEFINE size == Len(wfiles[fd].input)
        <5>1. at \in Nat /\ k \in Nat /\ size \in Nat /\ k <= size
          BY <1>1, <3>3, Word32Facts
        <5> HIDE DEF size
        <5>2. \A a \in Nat : a \in at..(at + k - 1) => a - at + 1 \in 1..size
          BY <5>1
        <5> QED
          BY <5>2 DEF Addr, size
      <4>3. \A a \in Addr : mem[a] \in WasiByte
        BY <1>2 DEF Linear
      <4>4. \A a \in Addr : g[a] \in WasiByte
        <5> HIDE DEF g
        <5> QED
          BY <3>4, <4>1, <4>2, <4>3
      <4>5. g = [a \in Addr |-> g[a]]
        OBVIOUS
      <4> HIDE DEF g
      <4> QED
        BY <4>4, <4>5 DEF Linear
    <3>6. out.result = 0 /\ out.mem = StoreI32(g, o + 8, k)
          /\ out.files = [wfiles EXCEPT ![fd].input = rest]
      BY <3>2
    <3> HIDE DEF g
    <3>7. /\ StoreI32(g, o + 8, k) \in Linear
          /\ LoadI32(StoreI32(g, o + 8, k), o + 8) = k
          /\ \A b \in Addr : b \notin (o + 8)..((o + 8) + 3) => StoreI32(g, o + 8, k)[b] = g[b]
      <4>1. o + 8 \in Nat /\ (o + 8) + 3 <= LastAddress
        BY <1>1
      <4> QED
        BY <3>3, <3>5, <4>1, StoredWord
    <3>8. linear' = StoreI32(g, o + 8, k)
      BY <3>6
    <3>9. answer = k
      BY <1>6, <3>6, <3>7
    <3>10. GuestMem' = [a \in DOMAIN GuestMem |->
             IF a \in at..(at + k - 1) THEN wfiles[fd].input[a - at + 1] ELSE GuestMem[a]]
      <4>1. ASSUME NEW a \in Addr \ Scratch
            PROVE  linear'[a] = IF a \in at..(at + k - 1) THEN wfiles[fd].input[a - at + 1] ELSE linear[a]
        <5>1. a \in Addr /\ a \notin (o + 8)..((o + 8) + 3)
          BY <1>1 DEF Scratch, Addr
        <5>2. linear'[a] = g[a]
          BY <3>7, <3>8, <5>1
        <5> QED
          BY <1>2, <3>4, <5>1, <5>2
      <4> QED
        BY <4>1 DEF GuestMem
    <3>11. rest \in Seq(WasiByte)
      BY <2>3, <3>3
    <3>12. [wfiles EXCEPT ![fd].input = rest] \in WasiFiles
      BY <2>2, <3>11, FilesFacts DEF WasiPart
    <3>13. WasiPart'
      <4>1. linear' \in Linear
        BY <3>7, <3>8
      <4>2. regs' \in [a0 : Words32 \cup {-e : e \in Errnos}, a1 : Nat, a2 : Nat]
        BY <1>1, <1>3, <3>3, <3>9
      <4>3. wfiles' \in WasiFiles
        BY <3>6, <3>12
      <4> QED
        BY <4>1, <4>2, <4>3 DEF WasiPart
    <3>14. wfiles' = [wfiles EXCEPT ![fd].input = SubSeq(@, k + 1, Len(@))]
      BY <3>2
    <3>15. Linux!ReadCall
      BY <1>3, <1>4, <1>5, <2>2, <2>4, <3>3, <3>9, <3>10, <3>14 DEF Linux!ReadCall, GuestMem
    <3> QED
      BY <3>13, <3>15
  <2>5. CASE func = "fd_write"
    <3>1. out \in fd_write(mem, fd, o, o + 8)
      BY <1>1, <1>8, <2>5 DEF Outcomes, mem, p, entry
    <3>2. PICK k \in 0..len :
            out = [result |-> 0, mem |-> StoreI32(mem, o + 8, k),
                   files |-> [wfiles EXCEPT ![fd].output = @ \o [i \in 1..k |-> mem[at + i - 1]]]]
      BY <1>2, <3>1 DEF fd_write
    <3> DEFINE bytes == [i \in 1..k |-> mem[at + i - 1]]
    <3>3. k \in Words32 /\ k <= len
      BY <1>1
    <3>4. \A i \in 1..k : at + i - 1 \in Addr \ Scratch
      <4>1. \A i \in 1..k : at + i - 1 \in at..(at + len - 1)
        BY <1>1, <3>3
      <4> QED
        BY <1>1, <4>1
    <3>5. bytes \in Seq(WasiByte)
      <4>1. \A i \in 1..k : mem[at + i - 1] \in WasiByte
        BY <1>2, <3>4 DEF Linear
      <4> QED
        BY <3>3, <4>1, SeqDef
    <3>6. bytes = [i \in 1..k |-> GuestMem[at + i - 1]]
      BY <1>2, <3>4 DEF GuestMem
    <3>7. /\ out.result = 0 /\ out.mem = StoreI32(mem, o + 8, k)
          /\ out.files = [wfiles EXCEPT ![fd].output = @ \o bytes]
      BY <3>2
    <3> HIDE DEF bytes
    <3>8. /\ StoreI32(mem, o + 8, k) \in Linear
          /\ LoadI32(StoreI32(mem, o + 8, k), o + 8) = k
          /\ \A b \in Addr : b \notin (o + 8)..((o + 8) + 3) => StoreI32(mem, o + 8, k)[b] = mem[b]
      <4>1. o + 8 \in Nat /\ (o + 8) + 3 <= LastAddress
        BY <1>1
      <4> QED
        BY <1>2, <3>3, <4>1, StoredWord
    <3>9. answer = k
      BY <1>6, <3>7, <3>8
    <3>10. GuestMem' = GuestMem
      <4>1. ASSUME NEW a \in Addr \ Scratch PROVE linear'[a] = linear[a]
        <5>1. a \in Addr /\ a \notin (o + 8)..((o + 8) + 3)
          BY <1>1 DEF Scratch, Addr
        <5> QED
          BY <1>2, <3>7, <3>8, <5>1
      <4> QED
        BY <4>1 DEF GuestMem
    <3>11. [wfiles EXCEPT ![fd].output = @ \o bytes] \in WasiFiles
      <4> DEFINE all == wfiles[fd].output \o bytes
      <4>1. all \in Seq(WasiByte)
        BY <2>3, <3>5
      <4>2. [wfiles EXCEPT ![fd].output = all] \in WasiFiles
        BY <2>2, <4>1, FilesFacts DEF WasiPart
      <4> QED
        BY <4>2
    <3>12. WasiPart'
      <4>1. linear' \in Linear
        BY <3>7, <3>8
      <4>2. regs' \in [a0 : Words32 \cup {-e : e \in Errnos}, a1 : Nat, a2 : Nat]
        BY <1>1, <1>3, <3>3, <3>9
      <4>3. wfiles' \in WasiFiles
        BY <3>7, <3>11
      <4> QED
        BY <4>1, <4>2, <4>3 DEF WasiPart
    <3>13. wfiles' = [wfiles EXCEPT ![fd].output = @ \o [i \in 1..k |-> GuestMem[at + i - 1]]]
      BY <3>6, <3>7
    <3>14. regs.a0' = k
      BY <1>3, <3>9
    <3>15. wfiles' = [wfiles EXCEPT ![Linux!fd].output =
                       @ \o [i \in 1..(regs.a0') |-> GuestMem[Linux!buf + i - 1]]]
      <4> DEFINE x == [i \in 1..k |-> GuestMem[at + i - 1]]
                 y == [i \in 1..(regs.a0') |-> GuestMem[Linux!buf + i - 1]]
      <4>1. x = y
        BY <1>4, <3>14
      <4>2. wfiles' = [wfiles EXCEPT ![fd].output = @ \o x]
        BY <3>13
      <4> HIDE DEF x, y
      <4>3. wfiles' = [wfiles EXCEPT ![Linux!fd].output = @ \o y]
        BY <1>4, <4>1, <4>2
      <4> QED
        BY <4>3 DEF y
    <3>16. regs.a0' \in 0..Linux!n
      BY <1>4, <3>14
    <3>17. Linux!WriteCall
      BY <1>5, <2>2, <2>5, <3>10, <3>15, <3>16 DEF Linux!WriteCall, GuestMem
    <3> QED
      BY <3>12, <3>17
  <2> QED
    BY <2>4, <2>5
<1> QED
  BY <1>7, <1>8

\* A system call through the table is one of Linux.
LEMMA WasiStep ==
  ASSUME WasiPart, WasiNext
  PROVE  WasiPart' /\ Linux!Call
<1>1. PICK nr \in DOMAIN build_table, a0 \in Fds, a1 \in Buffers, a2 \in Counts :
        SystemCall(nr, [a0 |-> a0, a1 |-> a1, a2 |-> a2])
  BY DEF WasiNext
<1> DEFINE r == [a0 |-> a0, a1 |-> a1, a2 |-> a2]
           entry == build_table[nr]
           mem == Stored(entry, r)
           p == Params(entry, r)
<1>2. r \in CallRegs /\ r.a0 = a0 /\ r.a1 = a1 /\ r.a2 = a2
  BY DEF CallRegs
<1>3. nr \in {57, 63, 64, 93, 94}
  BY DEF build_table
<1>4. /\ exited = Running
      /\ ecall' = [nr |-> nr, a0 |-> r.a0, a1 |-> r.a1, a2 |-> r.a2]
      /\ \/ entry.terminates /\ exited' = p[1] /\ UNCHANGED <<regs, linear, wfiles>>
         \/ /\ ~entry.terminates
            /\ exited' = exited
            /\ \E out \in Outcomes(entry.func, p, mem) :
                 regs' = [r EXCEPT ![entry.result] = Result(entry, out)]
                 /\ linear' = out.mem /\ wfiles' = out.files
  BY <1>1 DEF SystemCall
<1>5. /\ I32(r.a0) \in Words32 /\ r.a1 \in Nat /\ r.a2 \in Nat
      /\ Params(CloseEntry, r)[1] = I32(r.a0) /\ Params(Ends, r)[1] = I32(r.a0)
  BY <1>2, CallFacts
<1> HIDE DEF r
<1>6. Linux!fd = I32(r.a0) /\ ecall'.nr = nr
  BY <1>4 DEF Linux!fd
<1>7. CASE nr \in {63, 64}
  <2> DEFINE func == IF nr = 63 THEN "fd_read" ELSE "fd_write"
  <2>1. entry = Transfer(func)
    BY <1>7 DEF build_table
  <2>2. ~entry.terminates /\ entry.func = func /\ entry.result = "a0"
    BY <2>1 DEF Transfer
  <2>3. PICK out \in Outcomes(func, Params(Transfer(func), r), Stored(Transfer(func), r)) :
          /\ regs' = [r EXCEPT !["a0"] = Result(Transfer(func), out)]
          /\ linear' = out.mem /\ wfiles' = out.files
    BY <1>4, <2>1, <2>2
  <2>4. exited' = exited
    BY <1>4, <2>2
  <2>5. func \in {"fd_read", "fd_write"} /\ nr = IF func = "fd_read" THEN 63 ELSE 64
    BY <1>7
  <2> HIDE DEF func
  <2>6. ecall' = [nr |-> IF func = "fd_read" THEN 63 ELSE 64, a0 |-> r.a0, a1 |-> r.a1, a2 |-> r.a2]
    BY <1>4, <2>5
  <2>7. WasiPart' /\ (Linux!ReadCall \/ Linux!WriteCall)
    BY <1>2, <2>3, <2>4, <2>5, <2>6, TransferOutcome
  <2> QED
    BY <1>4, <2>7 DEF Linux!Call
<1>8. CASE nr = 57
  <2>1. entry = CloseEntry
    BY <1>8 DEF build_table
  <2>2. /\ ~entry.terminates /\ entry.func = "fd_close" /\ entry.result = "a0"
        /\ entry.stores = <<>> /\ entry.negate /\ entry.load = NoOffset
    BY <2>1 DEF CloseEntry
  <2>3. mem = linear /\ p[1] = I32(r.a0)
    BY <1>5, <2>1, <2>2, NothingStored
  <2>4. PICK out \in Outcomes("fd_close", p, linear) :
          /\ regs' = [r EXCEPT !["a0"] = Result(entry, out)]
          /\ linear' = out.mem /\ wfiles' = out.files /\ exited' = exited
    BY <1>4, <2>2, <2>3
  <2> DEFINE answer == Result(entry, out)
  <2>5. answer = IF out.result # 0 THEN -out.result ELSE 0
    BY <2>2 DEF Result
  <2>6. regs' = [a0 |-> answer, a1 |-> r.a1, a2 |-> r.a2]
    BY <1>2, <2>4 DEF CallRegs
  <2> HIDE DEF answer, entry, p
  <2>7. CASE out \in Failed(linear)
    <3>1. out.result \in Errnos /\ out.mem = linear /\ out.files = wfiles
      BY <2>7 DEF Failed
    <3>2. out.result \in Nat \ {0}
      BY <3>1, WasiAssumption
    <3>3. answer = -out.result /\ answer < 0 /\ answer \in {-e : e \in Errnos}
      BY <2>5, <3>1, <3>2
    <3>4. WasiPart'
      BY <1>5, <2>4, <2>6, <3>1, <3>3 DEF WasiPart
    <3>5. Linux!Fails
      BY <2>4, <2>6, <3>1, <3>3 DEF Linux!Fails
    <3> QED
      BY <1>4, <1>6, <1>8, <3>4, <3>5 DEF Linux!Call, Linux!CloseCall
  <2>8. CASE out \notin Failed(linear)
    <3>1. OpenFile(I32(r.a0)) /\ out \in fd_close(linear, I32(r.a0))
      BY <2>3, <2>4, <2>8 DEF Outcomes
    <3>2. /\ out.result = 0 /\ out.mem = linear
          /\ out.files = [wfiles EXCEPT ![I32(r.a0)].open = FALSE]
      BY <3>1 DEF fd_close
    <3>3. I32(r.a0) \in OpenFds /\ Linux!IsOpen
      BY <1>6, <3>1 DEF OpenFile, Linux!IsOpen, WasiPart, WasiFiles
    <3>4. wfiles' \in WasiFiles
      <4>1. wfiles \in WasiFiles
        BY DEF WasiPart
      <4>2. [wfiles EXCEPT ![I32(r.a0)].open = FALSE] \in WasiFiles
        BY <3>3, <4>1, FilesFacts
      <4> QED
        BY <2>4, <3>2, <4>2
    <3>5. regs'.a0 = 0 /\ regs' \in [a0 : Words32 \cup {-e : e \in Errnos}, a1 : Nat, a2 : Nat]
      BY <1>5, <2>5, <2>6, <3>2, Word32Facts
    <3>6. WasiPart'
      BY <2>4, <3>2, <3>4, <3>5 DEF WasiPart
    <3>7. Linux!CloseCall
      BY <1>6, <1>8, <2>4, <3>2, <3>3, <3>5 DEF Linux!CloseCall
    <3> QED
      BY <1>4, <3>6, <3>7 DEF Linux!Call
  <2> QED
    BY <2>7, <2>8
<1>9. CASE nr \in {93, 94}
  <2>1. entry = Ends
    BY <1>9 DEF build_table
  <2>2. entry.terminates /\ p[1] = I32(r.a0)
    BY <1>5, <2>1 DEF Ends
  <2>3. exited' = I32(r.a0) /\ UNCHANGED <<regs, linear, wfiles>>
    BY <1>4, <2>2
  <2>4. WasiPart'
    BY <1>5, <2>3 DEF WasiPart
  <2>5. Linux!ExitCall
    BY <1>6, <1>9, <2>3 DEF Linux!ExitCall
  <2> QED
    BY <1>4, <2>4, <2>5 DEF Linux!Call
<1> QED
  BY <1>3, <1>7, <1>8, <1>9

\* A guest starts with bytes, and with files that nothing was written to.
LEMMA WasiStarts ==
  ASSUME MCInit
  PROVE  WasiPart /\ Linux!Init
<1>1. WasiInit
  BY DEF MCInit, NoCalls
<1>2. PICK content \in Contents :
        wfiles = [fd \in OpenFds |-> [open |-> TRUE, input |-> content, output |-> <<>>]]
  BY <1>1 DEF WasiInit
<1>3. content \in Seq(WasiByte)
  BY WasiAssumption
<1>4. wfiles \in WasiFiles
  BY <1>2, <1>3 DEF WasiFiles
<1>5. linear \in Linear
  BY <1>1, WasiAssumption DEF WasiInit, Linear
<1>6. WasiPart
  BY <1>1, <1>4, <1>5, Word32Facts DEF WasiInit, WasiPart
<1>7. Linux!Init
  BY <1>1, <1>2 DEF WasiInit, Linux!Init
<1> QED
  BY <1>6, <1>7

\* A system call, or a step that is not about one.
LEMMA WasiSteps ==
  ASSUME WasiPart, [MCNext]_<<part, vars, memoryVars, tableVars, wasiVars>>
  PROVE  /\ WasiPart'
         /\ [part = "calls" => [Linux!Call]_(Linux!linuxVars)]_wasiVars
<1>1. CASE CallsNext
  BY <1>1, WasiStep DEF CallsNext
<1>2. CASE UNCHANGED wasiVars
  BY <1>2 DEF wasiVars, WasiPart
<1> QED
  BY <1>1, <1>2 DEF MCNext, NativeNext, WaxNext, JsNext, TablesNext, CodeStays

\* Through the table of os-linux-wasi the system calls of a guest are those of
\* Linux, for bytes and memories of any size, all buffers outside the scratch
\* area, sizes, descriptors, files and errors: read and write move the bytes
\* they say, between the file and the buffer that were named; a call that
\* fails is negative and does nothing; no other byte of the guest's changes
\* (LinuxToWasi::build_table).
THEOREM CallsAreLinuxCalls == MCSpec => MCImplementsLinuxCalls
<1>1. MCInit => WasiPart /\ Linux!Init
  BY WasiStarts
<1>2. WasiPart /\ [MCNext]_<<part, vars, memoryVars, tableVars, wasiVars>>
        => WasiPart' /\ [part = "calls" => [Linux!Call]_(Linux!linuxVars)]_wasiVars
  BY WasiSteps
<1> QED
  BY <1>1, <1>2, PTL DEF MCSpec, MCImplementsLinuxCalls

\* What holds of the code, the memory and the calls, in any run.
LEMMA PartsInvariant ==
  ASSUME WaxConfigs \subseteq NoScratch, JsConfigs \subseteq Scoped
  PROVE  MCSpec => [](CodeInv /\ MemoryPart /\ WasiPart)
<1>1. MCInit => CodeInv /\ WasiPart
  BY CodeStarts, WasiStarts
<1>2. CodeInv /\ WasiPart /\ [MCNext]_<<part, vars, memoryVars, tableVars, wasiVars>>
        => CodeInv' /\ WasiPart'
  BY CodeSteps, WasiSteps
<1> QED
  BY <1>1, <1>2, MemoryPartInvariant, PTL DEF MCSpec

\* The operands of every backend are 64-bit values and stay within its part of
\* the stack; a memory holds bytes; a register holds what a call left there.
THEOREM BackendsTypeCorrect ==
  ASSUME WaxConfigs \subseteq NoScratch, JsConfigs \subseteq Scoped
  PROVE  MCSpec => []MCTypeOK
<1>1. CodeInv => CASE IsWax -> m.stk \in Seq([t : {"i64"}, v : Word]) /\ m.mem \in Memories
                   [] IsJs -> m.stk \in Seq([t : {"BigInt", "Number"}, v : Word]) /\ m.mem \in Memories
                   [] OTHER -> TypeOK
  <2>1. CASE IsWax
    <3>1. IsWax => ~IsJs
      BY DEF IsWax, IsJs
    <3> QED
      BY <2>1, <3>1 DEF CodeInv, WaxInv, WaxFunctions, WaxSlot
  <2>2. CASE IsJs
    <3>1. IsJs => ~IsWax
      BY DEF IsWax, IsJs
    <3> QED
      BY <2>2, <3>1 DEF CodeInv, JsInv, JsPrograms, JsSlot
  <2>3. CASE ~IsWax /\ ~IsJs
    <3>1. NativeInv => TypeOK
      BY NativeTyped
    <3> QED
      BY <2>3, <3>1 DEF CodeInv
  <2> QED
    BY <2>1, <2>2, <2>3
<1>2. MemoryPart => MemoryTypeOK
  BY MemoryPartIs
<1>3. WasiPart => WasiTypeOK
  BY DEF WasiPart, WasiTypeOK, Linear, Words32
<1>4. CodeInv /\ MemoryPart /\ WasiPart => MCTypeOK
  BY <1>1, <1>2, <1>3 DEF MCTypeOK
<1> QED
  BY <1>4, PartsInvariant, PTL

\* In any run framed code returns to its caller with the caller's frame pointer
\* and stack, and the helper that bare code ends with returns there too; on
\* x86-64 for programs that leave no operand.
THEOREM CodeReturns ==
  ASSUME X86LeavesNothing, WaxConfigs \subseteq NoScratch, JsConfigs \subseteq Scoped
  PROVE  MCSpec => []ReturnsToCaller
<1> DEFINE all == <<part, vars, memoryVars, tableVars, wasiVars>>
<1>1. MCInit => ReturnsToCaller
  <2> SUFFICES ASSUME MCInit PROVE ReturnsToCaller
    OBVIOUS
  <2>1. m.status = "run"
    <3>1. CASE Init
      BY <3>1, InitNativeInv, PrologueCode, MemoryAssumption DEF Init, Inside
    <3>2. CASE W!Init(WaxConfigs)
      BY <3>2 DEF W!Init
    <3>3. CASE J!Init(JsConfigs)
      BY <3>3 DEF J!Init
    <3> QED
      BY <3>1, <3>2, <3>3 DEF MCInit, NoCode
  <2> QED
    BY <2>1 DEF ReturnsToCaller, TailCallReturnsToCaller
<1>2. CodeInv /\ CodeInv' /\ ReturnsToCaller /\ [MCNext]_all => ReturnsToCaller'
  <2> SUFFICES ASSUME CodeInv, CodeInv', ReturnsToCaller, [MCNext]_all PROVE ReturnsToCaller'
    OBVIOUS
  <2>1. CASE NativeNext \/ (UNCHANGED vars /\ ~IsWax /\ ~IsJs)
    BY <2>1, NextReturns DEF NativeNext, CodeInv
  <2>2. CASE backend' \notin Backends
    BY <2>2 DEF ReturnsToCaller
  <2>3. CASE IsWax' \/ IsJs'
    BY <2>2, <2>3, BackendAssumption DEF IsWax, IsJs
  <2>4. CASE (WaxNext \/ JsNext \/ (UNCHANGED vars /\ (IsWax \/ IsJs)))
    <3>1. WaxNext => IsWax'
      BY DEF WaxNext, IsWax, W!Next, W!PushU64, W!PushU32, W!Pop, W!Load, W!Store, W!Ecall, W!Jump,
        W!TailCall, W!Trap, W!Finish, W!Emit
    <3>2. JsNext => IsJs'
      BY DEF JsNext, IsJs, J!Next, J!PushU64, J!PushU32, J!Pop, J!Load, J!Store, J!Ecall, J!Jump,
        J!TailCall, J!Trap, J!Finish, J!Emit
    <3>3. UNCHANGED vars => IsWax' = IsWax /\ IsJs' = IsJs
      BY DEF vars, IsWax, IsJs
    <3> QED
      BY <2>3, <2>4, <3>1, <3>2, <3>3
  <2> QED
    BY <2>1, <2>4 DEF MCNext, TablesNext, CallsNext
<1> QED
  BY <1>1, <1>2, PartsInvariant, PTL DEF MCSpec
=============================================================================
