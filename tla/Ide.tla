-------------------------------- MODULE Ide ---------------------------------
(* One channel of the IDE driver, devices/ide.c, with its two disks: finding *)
(* the disks, then reads and writes of sectors by several threads, with the  *)
(* controller and its interrupts.  The disk becomes idle within the time     *)
(* wait_until_idle allows, and what it answers within wait_while_busy's.     *)
EXTENDS Integers, FiniteSets

CONSTANTS
  Boot, Thread,   \* the thread that runs ide_init, and those that use the disks
  Sec, Value,     \* sectors and their contents
  NULL,
  Channel,        \* what the registers of the two devices may hold after a reset
  MaxRequests,    \* bound: requests of a thread
  MaxFaults       \* bound: commands the disk fails, and interrupts that none has caused

VARIABLES
  lock, completion_wait, expecting_interrupt,  \* struct channel
  is_ata, registered,                          \* per device
  regs, ctl, irq, disk,                        \* the controller and the disks
  pc, req, count,                              \* the threads
  written, failed, spurious, errors, panic     \* written: what each sector should hold

chan == <<lock, completion_wait, expecting_interrupt>>
devs == <<is_ata, registered, regs>>
hard == <<ctl, irq, disk, spurious, errors>>
ghost == <<written, failed, panic>>
vars == <<chan, devs, hard, pc, req, count, ghost>>

Dev == {0, 1}
Threads == Thread \cup {Boot}
Goto(t, l) == pc' = [pc EXCEPT ![t] = l]

(* What the constants stand for: no thread is Boot or the null pointer, and  *)
(* a sector has contents.                                                    *)
IdeConstants == Boot \notin Thread /\ NULL \notin Threads /\ Value # {}

(* The answer of check_device_type for device d: whether it is an ATA disk,  *)
(* and whether a second device is worth a look.                              *)
check_device_type(d) ==
  LET r == regs[d]
  IN  IF (r.error # 1 /\ (r.error # 129 \/ d = 1)) \/ ~r.ready
        THEN [is_ata |-> FALSE, more |-> r.error # 129]
        ELSE [is_ata |-> r.signature, more |-> TRUE]

Init ==
  /\ lock = NULL /\ completion_wait = 0 /\ expecting_interrupt = FALSE
  /\ is_ata = [d \in Dev |-> FALSE] /\ registered = {}
  /\ regs \in Channel
  /\ ctl = [dev |-> 0, sector |-> NULL, cmd |-> "none", status |-> "idle", buf |-> NULL]
  /\ irq = FALSE /\ spurious = 0 /\ errors = 0
  /\ disk = [d \in Dev |-> [s \in Sec |-> CHOOSE v \in Value : TRUE]]
  /\ written = disk /\ failed = {} /\ panic = FALSE
  /\ pc = [t \in Threads |-> IF t = Boot THEN "probe" ELSE "off"]
  /\ req = [t \in Threads |-> NULL]
  /\ count = [t \in Threads |-> 0]
-----------------------------------------------------------------------------
(* ide_init: the devices' types, then one IDENTIFY for each disk. *)

Probe ==
  /\ pc[Boot] = "probe"
  /\ LET first == check_device_type(0)
     IN  is_ata' = [d \in Dev |-> IF d = 0 THEN first.is_ata ELSE first.more /\ check_device_type(1).is_ata]
  /\ Goto(Boot, "next")
  /\ UNCHANGED <<chan, registered, regs, hard, req, count, ghost>>

(* The next disk to identify; when there is none, the system is up. *)
NextDevice ==
  /\ pc[Boot] = "next"
  /\ LET last == IF req[Boot] = NULL THEN -1 ELSE req[Boot].d
         todo == {d \in Dev : d > last /\ is_ata[d]}
     IN  \/ /\ todo # {}
            /\ LET d == CHOOSE x \in todo : \A y \in todo : x <= y
               IN  req' = [req EXCEPT ![Boot] = [op |-> "identify", d |-> d, s |-> NULL, v |-> NULL]]
            /\ Goto(Boot, "select")
         \/ /\ todo = {}
            /\ pc' = [t \in Threads |-> IF t = Boot THEN "done" ELSE "off"]
            /\ req' = [req EXCEPT ![Boot] = NULL]
  /\ UNCHANGED <<chan, devs, hard, count, ghost>>

Up == pc[Boot] = "done"
-----------------------------------------------------------------------------
(* ide_read and ide_write. *)

Call(t) ==
  /\ Up /\ pc[t] = "off" /\ count[t] < MaxRequests
  /\ \E d \in registered, s \in Sec :
       \/ req' = [req EXCEPT ![t] = [op |-> "read", d |-> d, s |-> s, v |-> NULL]]
       \/ \E v \in Value : req' = [req EXCEPT ![t] = [op |-> "write", d |-> d, s |-> s, v |-> v]]
  /\ count' = [count EXCEPT ![t] = @ + 1]
  /\ Goto(t, "acquire")
  /\ UNCHANGED <<chan, devs, hard, ghost>>

(* Mutant: the channel is used without its lock. *)
AcquireNothing(t) ==
  /\ pc[t] = "acquire"
  /\ Goto(t, "select")
  /\ UNCHANGED <<chan, devs, hard, req, count, ghost>>

Acquire(t) ==
  /\ pc[t] = "acquire" /\ lock = NULL
  /\ lock' = t
  /\ Goto(t, "select")
  /\ UNCHANGED <<completion_wait, expecting_interrupt, devs, hard, req, count, ghost>>

(* wait_until_idle: each look at the status register takes back a pending    *)
(* interrupt.                                                                *)
PollIdle(t) ==
  /\ pc[t] \in {"select", "settle"} /\ ctl.status # "idle" /\ irq
  /\ irq' = FALSE
  /\ UNCHANGED <<chan, devs, ctl, disk, spurious, errors, pc, req, count, ghost>>

(* The channel is idle: select_device. *)
Select(t) ==
  /\ pc[t] = "select" /\ ctl.status = "idle"
  /\ ctl' = [ctl EXCEPT !.dev = req[t].d]
  /\ irq' = FALSE
  /\ Goto(t, "settle")
  /\ UNCHANGED <<chan, devs, disk, spurious, errors, req, count, ghost>>

(* Mutant: the command is issued without expecting its interrupt. *)
AddressUnexpected(t) ==
  /\ pc[t] = "settle" /\ ctl.status = "idle"
  /\ ctl' = [ctl EXCEPT !.sector = req[t].s, !.dev = req[t].d]
  /\ irq' = FALSE
  /\ Goto(t, "issue")
  /\ UNCHANGED <<chan, devs, disk, spurious, errors, req, count, ghost>>

(* Idle again: select_sector writes the registers, issue_pio_command gets    *)
(* ready for the interrupt.                                                  *)
Address(t) ==
  /\ pc[t] = "settle" /\ ctl.status = "idle"
  /\ ctl' = [ctl EXCEPT !.sector = req[t].s, !.dev = req[t].d]
  /\ irq' = FALSE
  /\ expecting_interrupt' = TRUE
  /\ Goto(t, "issue")
  /\ UNCHANGED <<lock, completion_wait, devs, disk, spurious, errors, req, count, ghost>>

Issue(t) ==
  /\ pc[t] = "issue"
  /\ ctl' = [ctl EXCEPT !.cmd = req[t].op, !.status = "busy"]
  /\ Goto(t, IF req[t].op = "write" THEN "busy" ELSE "down")
  /\ UNCHANGED <<chan, devs, irq, disk, spurious, errors, req, count, ghost>>

(* sema_down (&c->completion_wait). *)
Down(t) ==
  /\ pc[t] = "down" /\ completion_wait > 0
  /\ completion_wait' = completion_wait - 1
  /\ Goto(t, IF req[t].op = "write" THEN "release" ELSE "busy")
  /\ UNCHANGED <<lock, expecting_interrupt, devs, hard, req, count, ghost>>

(* wait_while_busy: without DRQ the command has failed; a disk that cannot   *)
(* be identified is left aside.                                              *)
NotBusy(t) ==
  /\ pc[t] = "busy" /\ ctl.status # "busy"
  /\ \/ /\ ctl.status = "drq"
        /\ Goto(t, IF req[t].op = "write" THEN "output" ELSE "input")
        /\ UNCHANGED <<is_ata, panic>>
     \/ /\ ctl.status = "idle" /\ req[t].op = "identify"
        /\ is_ata' = [is_ata EXCEPT ![req[t].d] = FALSE]
        /\ Goto(t, "next")
        /\ UNCHANGED panic
     \/ /\ ctl.status = "idle" /\ req[t].op # "identify"
        /\ panic' = TRUE
        /\ UNCHANGED <<is_ata, pc>>
  /\ UNCHANGED <<chan, registered, regs, hard, req, count, written, failed>>

(* input_sector; an identified disk is registered unless it is too large. *)
Input(t) ==
  /\ pc[t] = "input"
  /\ ctl' = [ctl EXCEPT !.status = "idle"]
  /\ \/ /\ req[t].op = "read"
        /\ req' = [req EXCEPT ![t].v = ctl.buf]
        /\ Goto(t, "release")
        /\ UNCHANGED devs
     \/ /\ req[t].op = "identify"
        /\ registered' = IF regs[req[t].d].large THEN registered ELSE registered \cup {req[t].d}
        /\ is_ata' = [is_ata EXCEPT ![req[t].d] = ~regs[req[t].d].large]
        /\ Goto(t, "next")
        /\ UNCHANGED <<req, regs>>
  /\ UNCHANGED <<chan, irq, disk, spurious, errors, count, ghost>>

Output(t) ==
  /\ pc[t] = "output"
  /\ ctl' = [ctl EXCEPT !.buf = req[t].v, !.cmd = "store", !.status = "busy"]
  /\ written' = [written EXCEPT ![req[t].d][req[t].s] = req[t].v]
  /\ failed' = failed \ {<<req[t].d, req[t].s>>}
  /\ Goto(t, "down")
  /\ UNCHANGED <<chan, devs, irq, disk, spurious, errors, req, count, panic>>

Release(t) ==
  /\ pc[t] = "release"
  /\ lock' = NULL
  /\ Goto(t, "off")
  /\ req' = [req EXCEPT ![t] = NULL]
  /\ UNCHANGED <<completion_wait, expecting_interrupt, devs, hard, count, ghost>>
-----------------------------------------------------------------------------
(* The interrupt, and the hardware (external). *)

interrupt_handler ==
  /\ irq
  /\ irq' = FALSE
  /\ completion_wait' = IF expecting_interrupt THEN completion_wait + 1 ELSE completion_wait
  /\ UNCHANGED <<lock, expecting_interrupt, devs, ctl, disk, spurious, errors, pc, req, count, ghost>>

Answer ==
  /\ ctl.status = "busy"
  /\ \/ /\ ctl.cmd \in {"read", "identify"}
        /\ ctl' = [ctl EXCEPT !.status = "drq",
                              !.buf = IF ctl.cmd = "read" THEN disk[ctl.dev][ctl.sector] ELSE NULL]
        /\ irq' = TRUE
        /\ UNCHANGED disk
     \/ /\ ctl.cmd = "write"
        /\ ctl' = [ctl EXCEPT !.status = "drq"]
        /\ UNCHANGED <<irq, disk>>
     \/ /\ ctl.cmd = "store"
        /\ ctl' = [ctl EXCEPT !.status = "idle"]
        /\ disk' = [disk EXCEPT ![ctl.dev][ctl.sector] = ctl.buf]
        /\ irq' = TRUE
  /\ UNCHANGED <<chan, devs, spurious, errors, pc, req, count, ghost>>

(* The disk gives up on a command: no data, and an interrupt all the same.   *)
(* A write that fails once its data has gone out is noticed by nobody.       *)
Fail ==
  /\ ctl.status = "busy" /\ spurious + errors < MaxFaults
  /\ ctl' = [ctl EXCEPT !.status = "idle"]
  /\ irq' = TRUE
  /\ errors' = errors + 1
  /\ failed' = IF ctl.cmd = "store" THEN failed \cup {<<ctl.dev, ctl.sector>>} ELSE failed
  /\ UNCHANGED <<chan, devs, disk, spurious, pc, req, count, written, panic>>

Spurious ==
  /\ ~irq /\ spurious + errors < MaxFaults
  /\ irq' = TRUE
  /\ spurious' = spurious + 1
  /\ UNCHANGED <<chan, devs, ctl, disk, errors, pc, req, count, ghost>>
-----------------------------------------------------------------------------
Step(t) == PollIdle(t) \/ Select(t) \/ Address(t) \/ Issue(t) \/ Down(t) \/ NotBusy(t)
           \/ Input(t) \/ Output(t) \/ Release(t)

Boots == Probe \/ NextDevice

Next ==
  /\ ~panic
  /\ \/ Boots
     \/ \E t \in Thread : Call(t) \/ Acquire(t)
     \/ \E t \in Threads : Step(t)
     \/ interrupt_handler \/ Answer \/ Fail \/ Spurious

Spec == Init /\ [][Next]_vars

(* Threads that can go on do (requests are bounded, so that nobody is passed *)
(* at the lock for ever), the controller answers what it is asked, and an    *)
(* interrupt is taken in the end.                                            *)
Fairness ==
  /\ WF_vars(~panic /\ Boots)
  /\ \A t \in Thread : WF_vars(~panic /\ Acquire(t))
  /\ \A t \in Threads : WF_vars(~panic /\ Step(t))
  /\ WF_vars(~panic /\ interrupt_handler)
  /\ WF_vars(~panic /\ Answer)

FairSpec == Spec /\ Fairness

(* ide_read returns what the last ide_write to that sector was given, and    *)
(* ide_write returns only once the sector is on the disk: whatever threads   *)
(* and disks share the channel, and although expecting_interrupt is never    *)
(* reset, a stale completion only makes a write return early.  A sector      *)
(* whose store the disk failed is excepted: ide_write does not look.         *)
SectorsKept ==
  \A t \in Thread : pc[t] = "release" /\ <<req[t].d, req[t].s>> \notin failed =>
    /\ req[t].op = "read" => req[t].v = written[req[t].d][req[t].s]
    /\ req[t].op = "write" /\ spurious = 0 => disk[req[t].d][req[t].s] = req[t].v

(* Every request comes to an end, or the kernel has panicked over a disk     *)
(* error: no completion is lost, not even when wait_until_idle takes back a  *)
(* pending interrupt.                                                        *)
RequestsEnd == \A t \in Threads : pc[t] \in {"acquire", "select"} ~> (pc[t] \in {"off", "next", "done"} \/ panic)
=============================================================================
