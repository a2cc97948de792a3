----------------------------- MODULE MCDevices ------------------------------
(* The device drivers for TLC: the two uses of an interrupt queue (input     *)
(* buffer and serial transmit queue), the console over the serial port, and  *)
(* the IDE channel.  They share no state, so a behaviour runs one of them,   *)
(* named by part, and leaves the others in an initial state.                 *)
EXTENDS Intq, TLC

CONSTANTS Boot, Sec, Value, MaxRequests, MaxFaults,
          Line, Capacity, MaxExtra, MaxKeys

VARIABLES
  part,
  use_console_lock, console_lock, console_lock_depth, mode, txq, ier, buffer,
  thr, sent, rbr, console_pc, pos, inner, printed, nested, intrs, keys, console_panic,
  ide_lock, completion_wait, expecting_interrupt, is_ata, registered, regs, ctl, irq, disk,
  ide_pc, req, count, written, failed, spurious, errors, ide_panic

console == <<use_console_lock, console_lock, console_lock_depth, mode, txq, ier, buffer, thr, sent, rbr,
             console_pc, pos, inner, printed, nested, intrs, keys, console_panic>>
ide == <<ide_lock, completion_wait, expecting_interrupt, is_ata, registered, regs, ctl, irq, disk,
         ide_pc, req, count, written, failed, spurious, errors, ide_panic>>

C == INSTANCE Console WITH pc <- console_pc, given <- printed, panic <- console_panic

(* What the two devices of a channel answer after a reset: two disks; a disk *)
(* and a device that fails its test, or is not ready, or has not a disk's    *)
(* signature; and one too large for Pintos.                                  *)
Reg(error, ready, signature, large) == [error |-> error, ready |-> ready, signature |-> signature, large |-> large]
Good == Reg(1, TRUE, TRUE, FALSE)
Channel ==
  {0 :> Good @@ 1 :> Good,
   0 :> Reg(129, TRUE, TRUE, FALSE) @@ 1 :> Good,
   0 :> Reg(1, FALSE, TRUE, FALSE) @@ 1 :> Good,
   0 :> Reg(1, TRUE, TRUE, TRUE) @@ 1 :> Reg(1, TRUE, FALSE, FALSE)}

D == INSTANCE Ide WITH lock <- ide_lock, pc <- ide_pc, panic <- ide_panic

(* The instance meets what the proofs about the IDE driver assume. *)
ASSUME DiskConstants == D!IdeConstants

MCInit ==
  /\ part \in {"input", "serial", "console", "ide"}
  /\ C!Init
  /\ IF part \in {"input", "serial"} THEN Init
     ELSE LET b == CHOOSE x \in Byte : TRUE
          IN  Init /\ buf = [i \in Pos |-> b] /\ byte = [t \in Writer |-> b] /\ given = b /\ taken = b
  /\ IF part = "ide" THEN D!Init
     ELSE D!Init /\ regs = [d \in D!Dev |-> Good]

Input ==
  /\ part = "input" /\ ~panic
  /\ (\E t \in Reader : ThreadStep(t)) \/ (\E b \in Byte : HandlerPut(b))

Serial ==
  /\ part = "serial" /\ ~panic
  /\ (\E t \in Writer : ThreadStep(t)) \/ HandlerGet \/ (\E b \in Byte : PutOff(b))

MCNext ==
  \/ (Input \/ Serial) /\ UNCHANGED <<part, console, ide>>
  \/ part = "console" /\ C!Next /\ UNCHANGED <<part, vars, ide>>
  \/ part = "ide" /\ D!Next /\ UNCHANGED <<part, vars, console>>

(* The fairness of each component, while it is the one that runs. *)
MCFairness ==
  /\ \A t \in Thread : WF_vars(pc[t] # "out" /\ (Input \/ Serial) /\ ThreadStep(t))
  /\ WF_vars(Serial /\ HandlerGet)
  /\ WF_vars(Input /\ \E b \in Byte : HandlerPut(b))
  /\ \A t \in Thread : SF_console(part = "console" /\ C!vprintf(t))
  /\ WF_console(part = "console" /\ C!Transmit)
  /\ WF_console(part = "console" /\ C!Flush)
  /\ WF_console(part = "console" /\ ~console_panic /\ C!serial_interrupt)
  /\ WF_console(part = "console" /\ ~console_panic /\ C!input_getc)
  /\ WF_ide(part = "ide" /\ ~ide_panic /\ D!Boots)
  /\ \A t \in Thread : SF_ide(part = "ide" /\ ~ide_panic /\ D!Acquire(t))
  /\ \A t \in Thread \cup {Boot} : WF_ide(part = "ide" /\ ~ide_panic /\ D!Step(t))
  /\ WF_ide(part = "ide" /\ ~ide_panic /\ D!interrupt_handler)
  /\ WF_ide(part = "ide" /\ ~ide_panic /\ D!Answer)

MCSpec == MCInit /\ [][MCNext]_<<part, vars, console, ide>> /\ MCFairness
-----------------------------------------------------------------------------
(* The console's text is sent whole: the port sends exactly the characters   *)
(* it was given, in their order, and the lines of threads are not mixed.     *)
OutputWhole == C!OutputInOrder /\ C!LinesWhole

(* Lines printed are sent to the end, and characters received handed over. *)
ConsoleLive == C!ConsoleLive

(* An IDE read returns what was last written; a write is on the disk when it *)
(* returns.                                                                  *)
SectorsKept == D!SectorsKept

(* Every IDE request comes to an end. *)
RequestsEnd == D!RequestsEnd
=============================================================================
