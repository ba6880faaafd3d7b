----------------------------- MODULE LinuxCalls -----------------------------
(***************************************************************************)
(* What a guest of RV64 Linux is promised of read, write, close and exit:  *)
(* a call returns the number of bytes it transferred, or a negative error  *)
(* and then nothing happened; it changes a0 and, when it reads, the first  *)
(* bytes of its buffer.                                                    *)
(***************************************************************************)
EXTENDS Integers, Sequences

CONSTANTS
  Low(_),    \* the low half of a register
  Running    \* no exit code

VARIABLES
  asked,     \* the last call: nr and the registers a0, a1, a2
  answer,    \* what a0 holds after it
  guest,     \* the guest's memory
  files,     \* files[fd]: open, input yet to be read, output
  exit       \* exit code, or Running

linuxVars == <<asked, answer, guest, files, exit>>

fd  == Low(asked'.a0)
buf == Low(asked'.a1)
n   == Low(asked'.a2)

IsOpen == fd \in DOMAIN files /\ files[fd].open

Fails == answer' < 0 /\ UNCHANGED <<guest, files, exit>>

ReadCall ==
  /\ asked'.nr = 63
  /\ \/ /\ IsOpen
        /\ answer' \in 0..n /\ answer' <= Len(files[fd].input)
        /\ guest' = [a \in DOMAIN guest |->
                       IF a \in buf..(buf + answer' - 1) THEN files[fd].input[a - buf + 1] ELSE guest[a]]
        /\ files' = [files EXCEPT ![fd].input = SubSeq(@, answer' + 1, Len(@))]
        /\ UNCHANGED exit
     \/ Fails

WriteCall ==
  /\ asked'.nr = 64
  /\ \/ /\ IsOpen
        /\ answer' \in 0..n
        /\ files' = [files EXCEPT ![fd].output = @ \o [i \in 1..answer' |-> guest[buf + i - 1]]]
        /\ UNCHANGED <<guest, exit>>
     \/ Fails

CloseCall ==
  /\ asked'.nr = 57
  /\ \/ /\ IsOpen
        /\ answer' = 0
        /\ files' = [files EXCEPT ![fd].open = FALSE]
        /\ UNCHANGED <<guest, exit>>
     \/ Fails

ExitCall ==
  /\ asked'.nr \in {93, 94}
  /\ exit' = fd
  /\ UNCHANGED <<answer, guest, files>>

Call == exit = Running /\ (ReadCall \/ WriteCall \/ CloseCall \/ ExitCall)

Init == exit = Running /\ \A d \in DOMAIN files : files[d].output = <<>>

Spec == Init /\ [][Call]_linuxVars
=============================================================================
