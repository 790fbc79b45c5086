------------------------------ MODULE Console ------------------------------
(***************************************************************************)
(* The console (kernel/console.c) on its UART (kernel/uart.c): processes   *)
(* in consoleread() and consolewrite(), the interrupt handler uartintr()   *)
(* with consoleintr(), and the 16550 (external).                           *)
(*                                                                         *)
(* The handler runs beside the processes, on a hart of its own.  A         *)
(* critical section of cons.lock or tx_lock is one step, but for the       *)
(* handler's: consoleintr() changes the ring in one step and then echoes,  *)
(* still with cons.lock, and spins in uartputc_sync() meanwhile.  Entries  *)
(* of the ring nobody will read again are reset.  procdump(), of ^P, is    *)
(* left out but for the key that calls it.                                 *)
(***************************************************************************)
EXTENDS Integers, Sequences, FiniteSets, FiniteSetsExt

CONSTANTS
  INPUT_BUF_SIZE,   \* entries of cons.buf
  UIntMod,          \* range of the uint indices r, w, e
  BATCH,            \* sizeof(buf) in consolewrite()
  Keys,             \* what can be typed
  RxFifo,           \* characters the UART keeps for the driver
  Readers, Writers, \* processes
  ReadSizes,        \* the n of a consoleread()
  WriteSizes        \* the n of a consolewrite()

EOF == "^D"
Stored == {"a", "LF", EOF}

\* Indices are reduced modulo INPUT_BUF_SIZE, so it must divide their range.
\* "a" stands for all keys without a meaning of their own.
ASSUME ConsoleAssumption ==
  /\ INPUT_BUF_SIZE \in Nat \ {0} /\ UIntMod \in Nat /\ UIntMod % INPUT_BUF_SIZE = 0
  /\ UIntMod > INPUT_BUF_SIZE /\ BATCH \in Nat \ {0} /\ RxFifo \in Nat \ {0}
  /\ ReadSizes \subseteq Nat /\ WriteSizes \subseteq Nat
  /\ Keys \subseteq Stored \cup {"CR", "^U", "^H", "^P", "NUL"}

VARIABLES
  buf, r, w, e,     \* cons
  tx_busy,          \* uart.c: tx_busy
  rd,               \* [Readers]: a process in consoleread()
  wr,               \* [Writers]: a process in consolewrite()
  intr,             \* the handler: where it is, and what it still has to echo
  rx,               \* receive FIFO
  tx,               \* transmit FIFO: "user" or "echo" for each character
  thre              \* the "transmit holding register empty" interrupt is pending

cons == <<buf, r, w, e>>
uart == <<rx, tx, thre>>
vars == <<cons, tx_busy, rd, wr, intr, uart>>

Idle == [at |-> "idle", n |-> 0, got |-> 0, killed |-> FALSE]
NoWrite == [at |-> "idle", n |-> 0, i |-> 0, put |-> 0]

\* consoleinit() and uartinit().
Init ==
  /\ buf = [i \in 0..(INPUT_BUF_SIZE - 1) |-> "LF"]
  /\ r = 0 /\ w = 0 /\ e = 0
  /\ tx_busy = FALSE
  /\ rd = [p \in Readers |-> Idle]
  /\ wr = [p \in Writers |-> NoWrite]
  /\ intr = [at |-> "idle", echo |-> 0]
  /\ rx = <<>> /\ tx = <<>> /\ thre = FALSE

Minus(a, b) == (a - b) % UIntMod
Plus(a, b) == (a + b) % UIntMod
Slot(i) == i % INPUT_BUF_SIZE

\* WriteReg(THR, c): the character joins the FIFO, which is then not empty.
Thr(source) == tx' = Append(tx, source) /\ thre' = FALSE

-----------------------------------------------------------------------------
(* consoleread()                                                           *)

consoleread(p) ==
  /\ rd[p].at = "idle"
  /\ \E n \in ReadSizes : rd' = [rd EXCEPT ![p] = [Idle EXCEPT !.at = "lock", !.n = n]]
  /\ UNCHANGED <<cons, tx_busy, wr, intr, uart>>

\* Mutant: the end of file is swallowed by the read that meets it.
Unread_Never(got) == FALSE

\* ^D after other characters is kept for the next read.
Unread(got) == got > 0

\* One hold of cons.lock: take characters until the read is done, or there are no
\* more and it sleeps, or returns -1 if killed.  It is done after n characters, at
\* ^D, at a newline, and when a copy to the user fails, which loses the character.
consoleread_loop(p, bad) ==
  LET here == Minus(w, r)
      char(i) == buf[Slot(r + i - 1)]
      stops == {i \in 1..here : \/ char(i) \in {"LF", EOF} \/ bad
                                \/ rd[p].got + i = rd[p].n}
      i == Min(stops)
      taken == CASE rd[p].n = 0 -> 0
                 [] rd[p].n > 0 /\ stops = {} -> here
                 [] OTHER -> IF char(i) = EOF /\ Unread(rd[p].got + i - 1) THEN i - 1 ELSE i
  IN
  /\ rd[p].at = "lock" /\ intr.at # "echo"
  /\ r' = Plus(r, taken)
  /\ buf' = [b \in DOMAIN buf |-> IF \E k \in 1..taken : b = Slot(r + k - 1) THEN "LF" ELSE buf[b]]
  /\ rd' = [rd EXCEPT ![p] = IF stops = {} /\ rd[p].n > 0 /\ ~rd[p].killed
                               THEN [@ EXCEPT !.at = "sleep", !.got = rd[p].got + here]
                               ELSE Idle]
  /\ UNCHANGED <<w, e, tx_busy, wr, intr, uart>>

\* kkill() marks a reader and ends its sleep.
kkill(p) ==
  /\ rd[p].at # "idle" /\ ~rd[p].killed
  /\ rd' = [rd EXCEPT ![p].killed = TRUE, ![p].at = IF @ = "sleep" THEN "lock" ELSE @]
  /\ UNCHANGED <<cons, tx_busy, wr, intr, uart>>

-----------------------------------------------------------------------------
(* consolewrite() and uartwrite()                                          *)

consolewrite(p) ==
  /\ wr[p].at = "idle"
  /\ \E n \in WriteSizes : wr' = [wr EXCEPT ![p] = [NoWrite EXCEPT !.at = "batch", !.n = n]]
  /\ UNCHANGED <<cons, tx_busy, rd, intr, uart>>

\* The size of the batch at hand.
Batch(p) == Min({BATCH, wr[p].n - wr[p].i})

\* Copy the next batch in and call uartwrite(); a bad address ends the loop.
consolewrite_batch(p, bad) ==
  /\ wr[p].at = "batch"
  /\ wr' = [wr EXCEPT ![p] = IF wr[p].i = wr[p].n \/ bad
                               THEN NoWrite
                               ELSE [@ EXCEPT !.at = "put"]]
  /\ UNCHANGED <<cons, tx_busy, rd, intr, uart>>

uartwrite_sleep(p) ==
  /\ wr[p].at = "put" /\ tx_busy
  /\ wr' = [wr EXCEPT ![p].at = "sleep"]
  /\ UNCHANGED <<cons, tx_busy, rd, intr, uart>>

\* Send a character; with more to come the loop finds tx_busy set and sleeps.
uartwrite(p) ==
  /\ wr[p].at = "put" /\ ~tx_busy
  /\ Thr("user")
  /\ tx_busy' = TRUE
  /\ wr' = [wr EXCEPT ![p] =
       IF wr[p].put + 1 = Batch(p)
         THEN [@ EXCEPT !.at = "batch", !.i = wr[p].i + Batch(p), !.put = 0]
         ELSE [@ EXCEPT !.at = "sleep", !.put = wr[p].put + 1]]
  /\ UNCHANGED <<cons, rd, intr, rx>>

-----------------------------------------------------------------------------
(* The interrupt handler: uartintr() and consoleintr()                     *)

Pending == thre \/ rx # <<>>

\* The PLIC delivers one UART interrupt at a time.  Reading ISR takes back the
\* transmit interrupt, unless the register reports the input first.
uartintr ==
  /\ intr.at = "idle" /\ Pending
  /\ intr' = [intr EXCEPT !.at = "tx"]
  /\ thre' = (thre /\ rx # <<>>)
  /\ UNCHANGED <<cons, tx_busy, rd, wr, rx, tx>>

\* Mutant: nobody is told.
WokenWriters_None == wr

\* wakeup(&tx_chan)
WokenWriters == [p \in Writers |-> [wr[p] EXCEPT !.at = IF @ = "sleep" THEN "put" ELSE @]]

\* LSR_TX_IDLE
Sent == tx = <<>>

\* With tx_lock: the transmitter is free if LSR says so.
uartintr_tx ==
  /\ intr.at = "tx"
  /\ intr' = [intr EXCEPT !.at = "rx"]
  /\ IF Sent THEN tx_busy' = FALSE /\ wr' = WokenWriters
             ELSE UNCHANGED <<tx_busy, wr>>
  /\ UNCHANGED <<cons, rd, uart>>

\* Mutant: the interrupt is acknowledged on the way out.
uartintr_end_Ack ==
  /\ intr.at = "rx" /\ rx = <<>>
  /\ intr' = [intr EXCEPT !.at = "idle"]
  /\ thre' = FALSE
  /\ UNCHANGED <<cons, tx_busy, rd, wr, rx, tx>>

\* uartgetc() has no more: return.
uartintr_end ==
  /\ intr.at = "rx" /\ rx = <<>>
  /\ intr' = [intr EXCEPT !.at = "idle"]
  /\ UNCHANGED <<cons, tx_busy, rd, wr, uart>>

\* The entries of the line being edited that ^U takes back: all after the last
\* newline, and never what was committed.
Killed ==
  LET ends == {i \in 0..Minus(e, w) :
                 i = Minus(e, w) \/ buf[Slot(Minus(e, i + 1))] = "LF"} IN
  CHOOSE i \in ends : \A j \in ends : i <= j

\* Mutant: one entry too many fits.
Fits_Late == Minus(e, r) <= INPUT_BUF_SIZE

Fits == Minus(e, r) < INPUT_BUF_SIZE

\* With c stored, whether the line is handed to the readers.
Commits(c) == c \in {"LF", EOF} \/ Plus(Minus(e, r), 1) = INPUT_BUF_SIZE

\* wakeup(&cons.r)
WokenReaders == [p \in Readers |-> [rd[p] EXCEPT !.at = IF @ = "sleep" THEN "lock" ELSE @]]

Erase(n) ==
  /\ e' = Minus(e, n)
  /\ buf' = [b \in DOMAIN buf |-> IF \E k \in 1..n : b = Slot(Minus(e, k)) THEN "LF" ELSE buf[b]]
  /\ UNCHANGED <<w, rd>>

Store(c) ==
  /\ buf' = [buf EXCEPT ![Slot(e)] = c]
  /\ e' = Plus(e, 1)
  /\ IF Commits(c) THEN w' = Plus(e, 1) /\ rd' = WokenReaders ELSE UNCHANGED <<w, rd>>

\* Go on to echo n characters, or release cons.lock and go on to the next input.
Echo(n) == intr' = [at |-> IF n = 0 THEN "rx" ELSE "echo", echo |-> n]

Translated(c) == IF c = "CR" THEN "LF" ELSE c

\* uartgetc() and consoleintr(c).  Each entry that is erased is three characters
\* to echo, each one that is stored is one.
consoleintr ==
  LET c == Head(rx) IN
  /\ intr.at = "rx" /\ rx # <<>> 
  /\ rx' = Tail(rx)
  /\ CASE c = "^U" -> Erase(Killed) /\ Echo(3 * Killed)
       [] c = "^H" /\ e # w -> Erase(1) /\ Echo(3)
       [] c \notin {"^U", "^H", "^P", "NUL"} /\ Fits -> Store(Translated(c)) /\ Echo(1)
       [] OTHER -> UNCHANGED <<buf, w, e, rd>> /\ Echo(0)
  /\ UNCHANGED <<r, tx_busy, wr, tx, thre>>

\* uartputc_sync(): spin until the transmitter is empty.
uartputc_sync ==
  /\ intr.at = "echo" /\ Sent
  /\ Thr("echo")
  /\ Echo(intr.echo - 1)
  /\ UNCHANGED <<cons, tx_busy, rd, wr, rx>>

-----------------------------------------------------------------------------
(* The UART and the keyboard (external)                                    *)

\* A character leaves; the interrupt is asked for when it was the last one.
transmit ==
  /\ tx # <<>>
  /\ tx' = Tail(tx)
  /\ thre' = (thre \/ Len(tx) = 1)
  /\ UNCHANGED <<cons, tx_busy, rd, wr, intr, rx>>

receive(c) ==
  /\ Len(rx) < RxFifo
  /\ rx' = Append(rx, c)
  /\ UNCHANGED <<cons, tx_busy, rd, wr, intr, tx, thre>>

Writing(p) ==
  uartwrite_sleep(p) \/ uartwrite(p) \/ \E bad \in BOOLEAN : consolewrite_batch(p, bad)

Interrupt ==
  uartintr \/ uartintr_tx \/ uartintr_end \/ consoleintr \/ uartputc_sync

Next ==
  \/ Interrupt \/ transmit \/ \E c \in Keys : receive(c)
  \/ \E p \in Readers : consoleread(p) \/ kkill(p) \/ \E bad \in BOOLEAN : consoleread_loop(p, bad)
  \/ \E p \in Writers : consolewrite(p) \/ Writing(p)

\* The UART sends what it was given; interrupts are taken and their handler runs
\* on; processes that are not asleep run on (see Sched).  Nobody need type.
Fairness ==
  /\ WF_vars(Interrupt) /\ WF_vars(transmit)
  /\ \A p \in Readers : WF_vars(\E bad \in BOOLEAN : consoleread_loop(p, bad))
  /\ \A p \in Writers : WF_vars(Writing(p))

Spec == Init /\ [][Next]_vars /\ Fairness

-----------------------------------------------------------------------------
(* Properties                                                              *)

TypeOK ==
  /\ buf \in [0..(INPUT_BUF_SIZE - 1) -> Stored]
  /\ {r, w, e} \subseteq 0..(UIntMod - 1)
  /\ tx_busy \in BOOLEAN /\ thre \in BOOLEAN
  /\ rd \in [Readers -> [at : {"idle", "lock", "sleep"}, n : Nat,
                          got : Nat, killed : BOOLEAN]]
  /\ wr \in [Writers -> [at : {"idle", "batch", "put", "sleep"}, n : Nat, i : Nat,
                          put : Nat]]
  /\ intr \in [at : {"idle", "tx", "rx", "echo"}, echo : Nat]
  /\ rx \in Seq(Keys) /\ tx \in Seq({"user", "echo"})

\* The entries of cons.buf from one index up to another.
Segment(from, to) == [i \in 1..Minus(to, from) |-> buf[Slot(from + i - 1)]]

T == INSTANCE Terminal WITH
       Capacity <- INPUT_BUF_SIZE, Chars <- Stored, Ends <- {"LF", EOF},
       line <- Segment(w, e), ready <- Segment(r, w)

\* The three indices and the ring are a line editor: what is typed is read once
\* and in order, editing never touches a finished line, a full buffer is handed
\* over and never overwritten, also when the uint indices wrap.
TerminalInput == T!Spec

\* "Save ^D for next time, to make sure caller gets a 0-byte result": the end of
\* file is used up only by a read that returns nothing (consoleread()).
EofIsZeroRead ==
  [][(EOF \in Range(Segment(r, r'))) =>
       \E p \in Readers : Segment(r, r') = <<EOF>> /\ rd[p].got = 0 /\ rd'[p] # rd[p]]_vars

\* tx_busy is set while a character of uartwrite() is in the UART, and there is
\* one at most: the echo, which does not look at tx_busy, adds no more than one.
TxBusyKnown ==
  LET user == {i \in DOMAIN tx : tx[i] = "user"} IN
  /\ Cardinality(user) <= 1 /\ Len(tx) <= 2
  /\ user # {} => tx_busy

\* With the transmitter empty and tx_busy set the interrupt that clears it is on
\* its way, although the echo takes interrupts back, and only then a writer sleeps.
WriterSignalled ==
  /\ tx_busy /\ tx = <<>> => thre \/ intr.at = "tx"
  /\ \A p \in Writers : wr[p].at = "sleep" => tx_busy

\* A reader sleeps only while there is nothing to read and nobody has killed it.
ReaderHasCause == \A p \in Readers : rd[p].at = "sleep" => r = w /\ ~rd[p].killed

\* Without an end to the typing the handler need never return, and a process need
\* never get a spinlock.
TypingStops == <>[](rx = <<>>)

\* A write ends, if no other competes with it for the transmitter.
WriteEnds == TypingStops => \A p \in Writers : []<>(wr[p].at = "idle")

\* Input that is ready while a process asks for it is read.
InputRead ==
  TypingStops => \A p \in Readers : []<>(rd[p].at = "idle" \/ r = w)

\* The states of the UART, of the ring and of the sleepers fit together.
HandshakesKept == TypeOK /\ TxBusyKnown /\ WriterSignalled /\ ReaderHasCause

\* Calls end: writes are carried out, and input is read.
CallsEnd == WriteEnds /\ InputRead
=============================================================================
