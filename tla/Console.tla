------------------------------ MODULE Console -------------------------------
(* The console: lib/kernel/console.c's lock, the serial port it prints to    *)
(* (devices/serial.c) and the input buffer the port shares with the keyboard *)
(* (devices/input.c).  The two interrupt queues are the bounded queues that  *)
(* Intq implements.  Serial code runs with interrupts off, so each of its    *)
(* calls is one step, except that a thread may sleep while the queue is full.*)
EXTENDS Integers, Sequences, SequencesExt, FiniteSets

CONSTANTS
  Thread, NULL,
  Line,        \* number of characters in a line
  Capacity,    \* of an interrupt queue
  MaxExtra,    \* bound: lines printed from within a thread's own printing, and
               \* characters printed by interrupt handlers
  MaxKeys      \* bound: characters received

VARIABLES
  use_console_lock, console_lock, console_lock_depth,
  mode, txq, ier,        \* serial.c
  buffer,                \* input.c
  thr, sent, rbr,        \* the UART: holding register, bytes on the wire, received byte
  pc, pos, inner,        \* each thread: where it is in its line, and in a nested one
  given, nested, intrs, keys, panic

lock == <<use_console_lock, console_lock, console_lock_depth>>
serial == <<mode, txq, ier>>
uart == <<thr, sent>>
input == <<buffer, rbr, keys>>
counts == <<nested, intrs>>
vars == <<lock, serial, uart, input, pc, pos, inner, given, counts, panic>>

Empty == txq = <<>>
Full == Len(txq) = Capacity
input_full == Len(buffer) = Capacity

Init ==
  /\ use_console_lock = FALSE /\ console_lock = NULL /\ console_lock_depth = 0
  /\ mode = "UNINIT" /\ txq = <<>> /\ ier = {}
  /\ buffer = <<>> /\ rbr = NULL /\ keys = 0
  /\ thr = NULL /\ sent = <<>>
  /\ pc = [t \in Thread |-> "out"] /\ pos = [t \in Thread |-> 0] /\ inner = [t \in Thread |-> FALSE]
  /\ given = <<>> /\ nested = 0 /\ intrs = 0 /\ panic = FALSE
-----------------------------------------------------------------------------
(* serial.c *)

(* The interrupts enabled, for a transmit queue q and an input buffer b. *)
write_ier(q, b) == (IF q # <<>> THEN {"XMIT"} ELSE {}) \cup (IF Len(b) < Capacity THEN {"RECV"} ELSE {})

(* putc_poll: wait for the holding register, then fill it, for each of one   *)
(* or more bytes.                                                            *)
putc_poll(bytes) ==
  LET all == (IF thr = NULL THEN <<>> ELSE <<thr>>) \o bytes
  IN  sent' = sent \o Front(all) /\ thr' = Last(all)

(* serial_putc when it need not sleep; off says that interrupts were off. *)
serial_putc(c, off) ==
  /\ given' = Append(given, c)
  /\ \/ /\ mode # "QUEUE"
        /\ mode' = "POLL"
        /\ putc_poll(<<c>>)
        /\ UNCHANGED <<txq, ier>>
     \/ /\ mode = "QUEUE" /\ off /\ Full
        /\ putc_poll(<<Head(txq)>>)
        /\ txq' = Append(Tail(txq), c)
        /\ ier' = write_ier(txq', buffer)
        /\ UNCHANGED mode
     \/ /\ mode = "QUEUE" /\ ~Full
        /\ txq' = Append(txq, c)
        /\ ier' = write_ier(txq', buffer)
        /\ UNCHANGED <<mode, uart>>

serial_init_queue ==
  /\ mode \in {"UNINIT", "POLL"} /\ use_console_lock
  /\ mode' = "QUEUE"
  /\ ier' = write_ier(txq, buffer)
  /\ UNCHANGED <<lock, txq, uart, input, pc, pos, inner, given, counts, panic>>

serial_flush ==
  /\ txq' = <<>>
  /\ putc_poll(txq)
  /\ UNCHANGED <<mode, ier>>

(* serial_interrupt, raised by an enabled condition of the UART. *)
serial_interrupt ==
  /\ mode = "QUEUE"
  /\ ("XMIT" \in ier /\ thr = NULL) \/ ("RECV" \in ier /\ rbr # NULL)
  /\ LET receive == ~input_full /\ rbr # NULL
         transmit == ~Empty /\ thr = NULL
     IN  /\ buffer' = IF receive THEN Append(buffer, rbr) ELSE buffer
         /\ rbr' = IF receive THEN NULL ELSE rbr
         /\ thr' = IF transmit THEN Head(txq) ELSE thr
         /\ txq' = IF transmit THEN Tail(txq) ELSE txq
  /\ ier' = write_ier(txq', buffer')
  /\ UNCHANGED <<lock, mode, sent, keys, pc, pos, inner, given, counts, panic>>
-----------------------------------------------------------------------------
(* input.c *)

(* input_putc by the keyboard's interrupt, which looks for room first. *)
keyboard_interrupt ==
  /\ keys < MaxKeys
  /\ keys' = keys + 1
  /\ buffer' = IF input_full THEN buffer ELSE Append(buffer, keys + 1)
  /\ ier' = IF mode = "QUEUE" THEN write_ier(txq, buffer') ELSE ier
  /\ UNCHANGED <<lock, mode, txq, uart, rbr, pc, pos, inner, given, counts, panic>>

(* Mutant: room is made in the buffer without a word to the serial port. *)
input_getc_silent ==
  /\ buffer # <<>>
  /\ buffer' = Tail(buffer)
  /\ UNCHANGED <<lock, serial, uart, rbr, keys, pc, pos, inner, given, counts, panic>>

(* A reader takes a key; the port may be allowed to receive again. *)
input_getc ==
  /\ buffer # <<>>
  /\ buffer' = Tail(buffer)
  /\ ier' = IF mode = "QUEUE" THEN write_ier(txq, buffer') ELSE ier
  /\ UNCHANGED <<lock, mode, txq, uart, rbr, keys, pc, pos, inner, given, counts, panic>>
-----------------------------------------------------------------------------
(* console.c.  Printing a line is vprintf, puts or putbuf. *)

console_init ==
  /\ ~use_console_lock /\ ~panic
  /\ \A t \in Thread : pc[t] = "out"
  /\ use_console_lock' = TRUE
  /\ UNCHANGED <<console_lock, console_lock_depth, serial, uart, input, pc, pos, inner, given, counts, panic>>

(* main calls serial_init_queue before it starts any thread that prints. *)
MayPrint(t) == mode = "QUEUE" \/ panic \/ t = CHOOSE u \in Thread : TRUE

Begin(t) ==
  /\ pc[t] = "out" /\ pos[t] = 0 /\ MayPrint(t)
  /\ pc' = [pc EXCEPT ![t] = "acquire"]
  /\ UNCHANGED <<lock, serial, uart, input, pos, inner, given, counts, panic>>

(* Mutant: the depth counts for whoever comes. *)
AcquireDepth(t) ==
  /\ pc[t] = "acquire"
  /\ IF use_console_lock /\ console_lock # NULL
       THEN console_lock_depth' = console_lock_depth + 1 /\ UNCHANGED console_lock
       ELSE console_lock' = (IF use_console_lock THEN t ELSE console_lock) /\ UNCHANGED console_lock_depth
  /\ pc' = [pc EXCEPT ![t] = "put"]
  /\ UNCHANGED <<use_console_lock, serial, uart, input, pos, inner, given, counts, panic>>

acquire_console(t) ==
  /\ pc[t] = "acquire"
  /\ \/ ~use_console_lock /\ UNCHANGED <<console_lock, console_lock_depth>>
     \/ /\ use_console_lock /\ console_lock = t
        /\ console_lock_depth' = console_lock_depth + 1
        /\ UNCHANGED console_lock
     \/ /\ use_console_lock /\ console_lock = NULL
        /\ console_lock' = t
        /\ UNCHANGED console_lock_depth
  /\ pc' = [pc EXCEPT ![t] = "put"]
  /\ UNCHANGED <<use_console_lock, serial, uart, input, pos, inner, given, counts, panic>>

(* putchar_have_lock; once a panic is under way interrupts are off. *)
putchar_have_lock(t) ==
  /\ pc[t] = "put"
  /\ inner[t] \/ pos[t] < Line
  /\ serial_putc(IF inner[t] THEN [by |-> t, n |-> 0] ELSE [by |-> t, n |-> pos[t] + 1], panic)
  /\ IF inner[t] THEN pc' = [pc EXCEPT ![t] = "release"] /\ UNCHANGED pos
     ELSE pos' = [pos EXCEPT ![t] = @ + 1] /\ UNCHANGED pc
  /\ UNCHANGED <<lock, input, inner, counts, panic>>

(* A line printed while the thread is in the middle of another. *)
Nest(t) ==
  /\ pc[t] = "put" /\ ~inner[t] /\ pos[t] \in 1 .. Line - 1 /\ nested + intrs < MaxExtra
  /\ nested' = nested + 1
  /\ inner' = [inner EXCEPT ![t] = TRUE]
  /\ pc' = [pc EXCEPT ![t] = "acquire"]
  /\ UNCHANGED <<lock, serial, uart, input, pos, given, intrs, panic>>

LineDone(t) ==
  /\ pc[t] = "put" /\ ~inner[t] /\ pos[t] = Line
  /\ pc' = [pc EXCEPT ![t] = "release"]
  /\ UNCHANGED <<lock, serial, uart, input, pos, inner, given, counts, panic>>

release_console(t) ==
  /\ pc[t] = "release"
  /\ \/ ~use_console_lock /\ UNCHANGED <<console_lock, console_lock_depth>>
     \/ /\ use_console_lock /\ console_lock_depth > 0
        /\ console_lock_depth' = console_lock_depth - 1
        /\ UNCHANGED console_lock
     \/ /\ use_console_lock /\ console_lock_depth = 0
        /\ console_lock' = NULL
        /\ UNCHANGED console_lock_depth
  /\ pc' = [pc EXCEPT ![t] = IF inner[t] THEN "put" ELSE "out"]
  /\ inner' = [inner EXCEPT ![t] = FALSE]
  /\ UNCHANGED <<use_console_lock, serial, uart, input, pos, given, counts, panic>>

(* A handler prints a character: no lock, and interrupts are off. *)
PrintIntr ==
  /\ nested + intrs < MaxExtra /\ ~panic
  /\ intrs' = intrs + 1
  /\ serial_putc([by |-> NULL, n |-> intrs + 1], TRUE)
  /\ UNCHANGED <<lock, input, pc, pos, inner, nested, panic>>

(* debug_panic: console_panic, then the panicking thread prints its line,    *)
(* whatever it was doing, and shutdown flushes the port.  No other thread    *)
(* runs any more, nor any handler.                                           *)
Panic(t) ==
  /\ ~panic /\ use_console_lock
  /\ pc[t] = "acquire" => console_lock \in {NULL, t}
  /\ panic' = TRUE
  /\ use_console_lock' = FALSE
  /\ pc' = [u \in Thread |-> IF u = t THEN "put" ELSE "dead"]
  /\ pos' = [pos EXCEPT ![t] = 0]
  /\ inner' = [inner EXCEPT ![t] = FALSE]
  /\ UNCHANGED <<console_lock, console_lock_depth, serial, uart, input, given, counts>>

Flush ==
  /\ panic /\ \E t \in Thread : pc[t] = "out"
  /\ ~Empty
  /\ serial_flush
  /\ UNCHANGED <<lock, input, pc, pos, inner, given, counts, panic>>
-----------------------------------------------------------------------------
(* The UART (external): the byte in the holding register goes out on the     *)
(* wire, and a byte comes in when the last one has been read.                *)
Transmit ==
  /\ thr # NULL
  /\ sent' = Append(sent, thr)
  /\ thr' = NULL
  /\ UNCHANGED <<lock, serial, input, pc, pos, inner, given, counts, panic>>

Receive ==
  /\ rbr = NULL /\ keys < MaxKeys
  /\ keys' = keys + 1
  /\ rbr' = keys + 1
  /\ UNCHANGED <<lock, serial, uart, buffer, pc, pos, inner, given, counts, panic>>

vprintf(t) == acquire_console(t) \/ putchar_have_lock(t) \/ LineDone(t) \/ release_console(t)
Devices == serial_interrupt \/ keyboard_interrupt \/ Receive

Next ==
  \/ \E t \in Thread : Begin(t) \/ vprintf(t) \/ Nest(t) \/ Panic(t)
  \/ console_init \/ serial_init_queue \/ PrintIntr \/ Flush \/ Transmit
  \/ ~panic /\ (Devices \/ input_getc)

Spec == Init /\ [][Next]_vars

(* A thread that can go on does (lines are bounded, so that nobody is passed *)
(* at the lock for ever); the UART sends what it holds and raises the        *)
(* interrupts that are enabled.                                              *)
Fairness ==
  /\ \A t \in Thread : WF_vars(vprintf(t))
  /\ WF_vars(Transmit)
  /\ WF_vars(Flush)
  /\ WF_vars(~panic /\ serial_interrupt)
  /\ WF_vars(~panic /\ input_getc)

FairSpec == Spec /\ Fairness
-----------------------------------------------------------------------------
(* The port sends exactly the characters it was given, in their order: what  *)
(* is on the wire, in the holding register and in the queue, in this order,  *)
(* is all of them, through the change from polling to the queue, the         *)
(* polling of a full queue with interrupts off, and the flush of a panic.    *)
OutputInOrder == given = sent \o (IF thr = NULL THEN <<>> ELSE <<thr>>) \o txq

(* Threads' lines are not mixed: between two characters of a thread's line   *)
(* only an interrupt handler, or the thread itself, prints; after a panic    *)
(* this no longer holds.                                                     *)
LinesWhole ==
  ~panic => \A t \in Thread : pos[t] \in 1 .. Line - 1 =>
    \A i, j \in DOMAIN given :
      i < j /\ given[i] = [by |-> t, n |-> 1] => given[j].by \in {t, NULL}

(* Every line begun is finished and is sent to the last character, unless    *)
(* another thread has panicked; and every character received is handed over. *)
ConsoleLive ==
  /\ \A t \in Thread : pc[t] = "acquire" ~> ((pc[t] = "out" /\ thr = NULL /\ Empty) \/ pc[t] = "dead")
  /\ (mode = "QUEUE" /\ rbr # NULL) ~> (rbr = NULL \/ panic)
=============================================================================
