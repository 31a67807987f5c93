-------------------------- MODULE TerminalProofs --------------------------
(***************************************************************************)
(* Type correctness of Terminal, and that a local terminal is closed by an *)
(* exit only when it shows everything its child printed, and that nothing  *)
(* a local or a remote child printed, and nothing another leg pushed, is   *)
(* lost on the way before the link drops; for any amount of output and     *)
(* input and any capacity of the kernel's buffers and of the queues.       *)
(***************************************************************************)
EXTENDS Terminal, FiniteSetTheorems, TLAPS

\* What queueing and dequeueing do to the type of a channel.
LEMMA ChannelTypes ==
  ASSUME NEW S, NEW q \in Seq(S)
  PROVE  /\ \A e \in S : Append(q, e) \in Seq(S)
         /\ q # <<>> => Head(q) \in S /\ Tail(q) \in Seq(S)
         /\ <<>> \in Seq(S)
OBVIOUS

\* The run loop's arm takes an event of the channel the terminal has.
LEMMA FedTypes ==
  ASSUME ed \in TermBuffer, hist \in History, NEW m, Fed(m)
  PROVE  ed' \in TermBuffer /\ hist' \in History
<1>1. CASE m = "data"
  <2>1. CASE ed.emu
    BY <1>1, <2>1 DEF Fed, TermBuffer, History
  <2>2. CASE ~ed.emu
    BY <1>1, <2>2 DEF Fed, TermBuffer, History
  <2> QED BY <2>1, <2>2
<1>2. CASE m # "data"
  <2>1. ed' \in TermBuffer
    BY <1>2 DEF Fed, TermBuffer
  <2>2. hist' \in History
    BY <1>2 DEF Fed, History
  <2> QED BY <2>1, <2>2
<1> QED BY <1>1, <1>2

\* The counters stay numbers, and records with new fields keep their sets.
LEMMA RecordTypes ==
  ASSUME TypeOK
  PROVE  /\ \A n \in Nat : n + 1 \in Nat
         /\ hist.drops \in Nat /\ hist.pushed \in Nat /\ hist.delivered \in Nat
         /\ child.printed \in Nat /\ child.own \in Nat
         /\ \A n \in Nat : /\ [hist EXCEPT !.drops = n] \in History
                         /\ [hist EXCEPT !.pushed = n] \in History
                         /\ [hist EXCEPT !.delivered = n] \in History
                         /\ [child EXCEPT !.held = TRUE, !.own = n] \in Process
                         /\ [child EXCEPT !.held = FALSE, !.printed = n] \in Process
         /\ \A h \in BOOLEAN : [child EXCEPT !.held = h] \in Process
         /\ \A s \in {"none", "running", "dead"} :
              /\ [child EXCEPT !.state = s] \in Process
              /\ [child EXCEPT !.state = s, !.printed = 1] \in Process
              /\ [child EXCEPT !.held = FALSE, !.state = s] \in Process
<1>1. /\ \A n \in Nat : n + 1 \in Nat
      /\ hist.drops \in Nat /\ hist.pushed \in Nat /\ hist.delivered \in Nat
      /\ child.printed \in Nat /\ child.own \in Nat
  BY DEF TypeOK, History, Process
<1>2. child \in Process /\ hist \in History
  BY DEF TypeOK
<1>3. ASSUME NEW n \in Nat
      PROVE  /\ [hist EXCEPT !.drops = n] \in History
             /\ [hist EXCEPT !.pushed = n] \in History
             /\ [hist EXCEPT !.delivered = n] \in History
  BY <1>2 DEF History
<1>4. ASSUME NEW n \in Nat
      PROVE  /\ [child EXCEPT !.held = TRUE, !.own = n] \in Process
             /\ [child EXCEPT !.held = FALSE, !.printed = n] \in Process
  BY <1>2 DEF Process
<1>5. \A h \in BOOLEAN : [child EXCEPT !.held = h] \in Process
  BY <1>2 DEF Process
<1>6. ASSUME NEW s \in {"none", "running", "dead"}
      PROVE  /\ [child EXCEPT !.state = s] \in Process
             /\ [child EXCEPT !.state = s, !.printed = 1] \in Process
             /\ [child EXCEPT !.held = FALSE, !.state = s] \in Process
  BY <1>2 DEF Process
<1> QED BY <1>1, <1>3, <1>4, <1>5, <1>6

\* Every action keeps the types, for every value of the constants.
LEMMA TypeStep == TypeOK /\ [Next]_vars => TypeOK'
<1> SUFFICES ASSUME TypeOK, [Next]_vars PROVE TypeOK'
  OBVIOUS
<1> USE TerminalAssumption DEF TypeOK, here, actor, host, stream
<1>a. /\ \A c \in {"open", "write", "kill"} : Append(cmds, c) \in Commands
      /\ cmds # <<>> => Tail(cmds) \in Commands
      /\ <<>> \in Commands
  BY ChannelTypes DEF Commands
<1>b. /\ \A e \in {"data", "exit"} : Append(events, e) \in Events
      /\ events # <<>> => Head(events) \in {"data", "exit"} /\ Tail(events) \in Events
      /\ <<>> \in Events
  BY ChannelTypes DEF Events
<1>c. ASSUME NEW q \in Frames
      PROVE  /\ \A e \in {"data", "exit", "push"} : Append(q, e) \in Frames
             /\ q # <<>> => Head(q) \in {"data", "exit", "push"} /\ Tail(q) \in Frames
             /\ <<>> \in Frames
  BY ChannelTypes DEF Frames
<1>d. ASSUME NEW q \in Frames
      PROVE  /\ [wire EXCEPT !.ctl = q] \in Wire /\ [wire EXCEPT !.stream = q] \in Wire
             /\ [wire EXCEPT !.sent = q] \in Wire
             /\ [inbox EXCEPT !.shared = q] \in Inbox
             /\ [inbox EXCEPT !.group = q] \in Inbox
             /\ [inbox EXCEPT !.events = q] \in Inbox
  BY DEF Wire, Inbox
<1>e. /\ wire.ctl \in Frames /\ wire.stream \in Frames /\ wire.sent \in Frames
      /\ inbox.shared \in Frames /\ inbox.group \in Frames /\ inbox.events \in Frames
  BY DEF Wire, Inbox
<1>1. CASE Open
  <2>1. cmds' \in Commands
    BY <1>1, <1>a DEF Open, Command
  <2>2. ed' \in TermBuffer /\ hist' \in History
    BY <1>1 DEF Open, TermBuffer, History
  <2> QED BY <1>1, <2>1, <2>2 DEF Open
<1>2. CASE Type
  <2>1. cmds' \in Commands
    BY <1>2, <1>a DEF Type, Command
  <2>2. hist' \in History
    BY <1>2 DEF Type, History
  <2> QED BY <1>2, <2>1, <2>2 DEF Type
<1>3. CASE Wipe
  <2>1. cmds' \in Commands
    BY <1>3, <1>a DEF Wipe, Command
  <2>2. ed' \in TermBuffer
    BY <1>3 DEF Wipe, TermBuffer
  <2> QED BY <1>3, <2>1, <2>2 DEF Wipe
<1>4. CASE OnTermEvents
  <2>1. ed' \in TermBuffer /\ hist' \in History
    BY <1>4, FedTypes DEF OnTermEvents
  <2>2. events' \in Events
    BY <1>4, <1>b DEF OnTermEvents
  <2>3. inbox' \in Inbox
    BY <1>4, <1>c, <1>d, <1>e DEF OnTermEvents
  <2> QED BY <1>4, <2>1, <2>2, <2>3 DEF OnTermEvents
<1>5. CASE OpenPty \/ OpenFails \/ TakeKill
  <2>1. cmds' \in Commands
    BY <1>5, <1>a DEF OpenPty, OpenFails, TakeKill, Take
  <2>2. child' \in Process /\ pty' \in Kernel
    <3>1. child' \in Process
      <4>1. child.state \in {"none", "running", "dead"}
        BY DEF Process
      <4> QED BY <1>5, <4>1, RecordTypes DEF OpenPty, OpenFails, TakeKill
    <3>2. pty' \in Kernel
      BY <1>5 DEF OpenPty, OpenFails, TakeKill, Kernel
    <3> QED BY <3>1, <3>2
  <2> QED BY <1>5, <2>1, <2>2 DEF OpenPty, OpenFails, TakeKill
<1>6. CASE TakeWrite
  BY <1>6, <1>a DEF TakeWrite, Take
<1>7. CASE ActorWrites
  <2>1. pty' \in Kernel
    <3>1. CASE child.state = "running"
      BY <1>7, <3>1 DEF ActorWrites, Kernel
    <3>2. CASE child.state # "running"
      BY <1>7, <3>2 DEF ActorWrites
    <3> QED BY <3>1, <3>2
  <2>2. writing' \in Nat
    <3>1. writing \in Nat /\ writing > 0 /\ (writing' = writing - 1 \/ writing' = 0)
      BY <1>7 DEF ActorWrites
    <3> QED BY <3>1
  <2> QED BY <1>7, <2>1, <2>2 DEF ActorWrites
<1>8. CASE ChildPrints \/ ChildWrites \/ ChildExits
           \/ (\E answers \in BOOLEAN : ChildReads(answers))
  <2>1. child' \in Process
    BY <1>8, RecordTypes, ZenonT(40) DEF ChildPrints, ChildWrites, ChildExits, ChildReads
  <2>2. pty' \in Kernel
    BY <1>8 DEF ChildPrints, ChildWrites, ChildExits, ChildReads, Kernel
  <2> QED BY <1>8, <2>1, <2>2 DEF ChildPrints, ChildWrites, ChildExits, ChildReads
<1>9. CASE ReaderReads \/ ReaderEnds
  BY <1>9 DEF ReaderReads, ReaderEnds, Kernel
<1>10. CASE ReaderSends
  BY <1>10, <1>b DEF ReaderSends
<1>11. CASE Forward
  <2>1. events' \in Events
    BY <1>11, <1>b DEF Forward
  <2>2. wire' \in Wire
    BY <1>11, <1>c, <1>d, <1>e DEF Forward
  <2> QED BY <1>11, <2>1, <2>2 DEF Forward
<1>12. CASE PushOther
  <2>1. wire' \in Wire
    BY <1>12, <1>c, <1>d, <1>e DEF PushOther
  <2>2. hist' \in History
    BY <1>12, RecordTypes DEF PushOther
  <2> QED BY <1>12, <2>1, <2>2 DEF PushOther
<1>13. CASE WriterSends
  <2>1. wire' \in Wire
    <3>1. ASSUME NEW q \in Frames, NEW r \in Frames
          PROVE  /\ [wire EXCEPT !.ctl = q, !.sent = r] \in Wire
                 /\ [wire EXCEPT !.stream = q, !.sent = r] \in Wire
      BY DEF Wire
    <3>2. CASE wire.ctl # <<>>
      <4>1. Tail(wire.ctl) \in Frames /\ Append(wire.sent, Head(wire.ctl)) \in Frames
        BY <3>2, <1>c, <1>e
      <4> QED BY <1>13, <3>1, <3>2, <4>1 DEF WriterSends
    <3>3. CASE wire.ctl = <<>>
      <4>1. /\ Tail(wire.stream) \in Frames
            /\ Append(wire.sent, Head(wire.stream)) \in Frames
        BY <1>13, <3>3, <1>c, <1>e DEF WriterSends
      <4> QED BY <1>13, <3>1, <3>3, <4>1 DEF WriterSends
    <3> QED BY <3>2, <3>3
  <2> QED BY <1>13, <2>1 DEF WriterSends
<1>14. CASE LinkReads
  <2>1. wire' \in Wire /\ inbox' \in Inbox
    BY <1>14, <1>c, <1>d, <1>e DEF LinkReads
  <2> QED BY <1>14, <2>1 DEF LinkReads
<1>15. CASE Split
  <2>1. inbox' \in Inbox
    <3>1. ASSUME NEW q \in Frames, NEW r \in Frames
          PROVE  [inbox EXCEPT !.shared = q, !.group = r] \in Inbox
      BY DEF Inbox
    <3>2. /\ Tail(inbox.shared) \in Frames
          /\ Append(inbox.group, Head(inbox.shared)) \in Frames
      BY <1>15, <1>c, <1>e DEF Split
    <3> QED BY <1>15, <1>d, <3>1, <3>2 DEF Split
  <2>2. hist' \in History
    BY <1>15, RecordTypes DEF Split
  <2> QED BY <1>15, <2>1, <2>2 DEF Split
<1>16. CASE TermDemux
  <2>1. inbox' \in Inbox
    BY <1>16, <1>c, <1>e DEF TermDemux, Inbox
  <2> QED BY <1>16, <2>1 DEF TermDemux
<1>17. CASE \E handed \in BOOLEAN : Drop(handed)
  <2>1. PICK handed \in BOOLEAN : Drop(handed)
    BY <1>17
  <2>2. wire' \in Wire
    BY <2>1, <1>c, <1>e DEF Drop, Quiet, Wire
  <2>3. inbox' \in Inbox
    BY <2>1, <1>c, <1>e DEF Drop, Inbox
  <2>4. child' \in Process /\ pty' \in Kernel
    BY <2>1 DEF Drop, Process, Kernel
  <2>5. hist' \in History
    BY <2>1, RecordTypes DEF Drop
  <2> QED BY <2>1, <2>2, <2>3, <2>4, <2>5, <1>a, <1>b DEF Drop
<1>18. CASE SeeOutage \/ Reconnect
  BY <1>18 DEF SeeOutage, Reconnect
<1>19. CASE Resync
  <2>1. ed' \in TermBuffer /\ hist' \in History
    BY <1>19 DEF Resync, TermBuffer, History
  <2> QED BY <1>19, <2>1 DEF Resync
<1>20. CASE UNCHANGED vars
  BY <1>20 DEF vars
<1> QED
  BY <1>1, <1>2, <1>3, <1>4, <1>5, <1>6, <1>7, <1>8, <1>9, <1>10, <1>11, <1>12,
     <1>13, <1>14, <1>15, <1>16, <1>17, <1>18, <1>19, <1>20
  DEF Next, Actor, Child, Reader, Daemon, Link

\* The state of a terminal keeps its types: for any capacities and any numbers
\* of chunks, keystrokes, pushes and drops.
THEOREM TerminalTypeCorrect == Spec => []TypeOK
<1>1. Init => TypeOK
  <2> SUFFICES ASSUME Init PROVE TypeOK
    OBVIOUS
  <2>1. <<>> \in Commands /\ <<>> \in Events /\ <<>> \in Frames
    BY DEF Commands, Events, Frames
  <2>2. wire \in Wire /\ inbox \in Inbox
    BY <2>1 DEF Init, Quiet, Wire, Inbox
  <2>3. ed \in TermBuffer /\ child \in Process /\ pty \in Kernel /\ hist \in History
    BY DEF Init, TermBuffer, Process, Kernel, History
  <2> QED BY TerminalAssumption, <2>1, <2>2, <2>3 DEF Init, TypeOK
<1> QED
  BY <1>1, TypeStep, PTL DEF Spec

-----------------------------------------------------------------------------
(* The output of a local child: what it has printed is shown, in the event *)
(* channel, in the thread's hand or in the kernel's buffer.                *)

Opening == \E i \in 1..Len(cmds) : cmds[i] = "open"

OneOpening ==
  \A i, j \in 1..Len(cmds) : cmds[i] = "open" /\ cmds[j] = "open" => i = j

\* Before the buffer is opened nothing is queued, and before the actor took
\* the command there is no child and no output.
Unborn ==
  /\ ed.kind = "none" => cmds = <<>>
  /\ OneOpening
  /\ ed.kind = "none" \/ Opening =>
       /\ child.state = "none" /\ child.printed = 0 /\ pty.out = 0
       /\ reader = "none" /\ events = <<>> /\ ed.shown = 0

\* The exit is the last the thread says, and then the child is dead and the
\* kernel's buffer empty.
ExitLast ==
  /\ \A i \in 1..Len(events) :
       events[i] = IF reader = "done" /\ i = Len(events) THEN "exit" ELSE "data"
  /\ reader \in {"exit", "done"} => pty.out = 0 /\ child.state = "dead"
  /\ ed.kind = "live" /\ reader = "done" => events # <<>>

InHand == IF reader = "data" THEN 1 ELSE IF reader = "done" THEN -1 ELSE 0

\* Nothing is lost on the way.
Accounted ==
  ed.kind = "live" =>
    ed.emu /\ child.printed = ed.shown + Len(events) + InHand + pty.out

\* After the exit nothing is on the way any more.
AllShown ==
  hist.closed = "exit" =>
    /\ ed.shown = child.printed /\ events = <<>> /\ reader = "done"
    /\ ed.kind \in {"exited", "wiped"} /\ ~Opening

LocalInv ==
  place = "local" => phase = "up" /\ Unborn /\ ExitLast /\ Accounted /\ AllShown

\* A keystroke or a wipe behind it does not touch the one opening command, ...
LEMMA LaterCommand ==
  ASSUME TypeOK, OneOpening, NEW c \in {"write", "kill"}, cmds' = Append(cmds, c)
  PROVE  OneOpening' /\ (Opening' => Opening)
<1>1. cmds \in Seq({"open", "write", "kill"})
  BY DEF TypeOK, Commands
<1>2. /\ Len(cmds') = Len(cmds) + 1
      /\ \A i \in 1..Len(cmds) : cmds'[i] = cmds[i]
      /\ cmds'[Len(cmds) + 1] # "open"
  BY <1>1
<1> QED BY <1>1, <1>2 DEF OneOpening, Opening

\* ... and once the actor took it there is none.
LEMMA TakenCommand ==
  ASSUME TypeOK, OneOpening, cmds # <<>>, cmds' = Tail(cmds)
  PROVE  /\ OneOpening' /\ (Opening' => Opening)
         /\ Head(cmds) = "open" => Opening /\ ~Opening'
<1>1. cmds \in Seq({"open", "write", "kill"})
  BY DEF TypeOK, Commands
<1>2. /\ Len(cmds') = Len(cmds) - 1 /\ Len(cmds) \in Nat \ {0}
      /\ \A i \in 1..Len(cmds') : cmds'[i] = cmds[i + 1]
      /\ Head(cmds) = cmds[1]
  BY <1>1
<1>3. OneOpening'
  BY <1>2 DEF OneOpening
<1>4. Opening' => Opening
  BY <1>2 DEF Opening
<1>5. Head(cmds) = "open" => Opening /\ ~Opening'
  BY <1>2 DEF OneOpening, Opening
<1> QED BY <1>3, <1>4, <1>5

\* What the thread sends keeps the order, and so does what the loop takes.
LEMMA LaterEvent ==
  ASSUME TypeOK, ExitLast, reader \in {"data", "exit"}, events' = Append(events, reader),
         reader' = IF reader = "data" THEN "reading" ELSE "done"
  PROVE  /\ Len(events') = Len(events) + 1
         /\ \A i \in 1..Len(events') : events'[i] =
              IF reader' = "done" /\ i = Len(events') THEN "exit" ELSE "data"
<1>1. events \in Seq({"data", "exit"})
  BY DEF TypeOK, Events
<1>2. /\ Len(events') = Len(events) + 1 /\ Len(events) \in Nat
      /\ \A i \in 1..Len(events) : events'[i] = events[i]
      /\ events'[Len(events) + 1] = reader
  BY <1>1
<1>3. \A i \in 1..Len(events) : events[i] = "data"
  BY DEF ExitLast
<1> QED BY <1>2, <1>3

LEMMA TakenEvent ==
  ASSUME TypeOK, ExitLast, events # <<>>, events' = Tail(events), reader' = reader
  PROVE  /\ Len(events') = Len(events) - 1
         /\ \A i \in 1..Len(events') : events'[i] =
              IF reader' = "done" /\ i = Len(events') THEN "exit" ELSE "data"
         /\ Head(events) = "data" /\ reader = "done" => events' # <<>>
         /\ Head(events) # "data" => /\ Head(events) = "exit" /\ events' = <<>>
                                    /\ reader = "done"
<1>1. events \in Seq({"data", "exit"})
  BY DEF TypeOK, Events
<1>2. /\ Len(events') = Len(events) - 1 /\ Len(events) \in Nat \ {0}
      /\ \A i \in 1..Len(events') : events'[i] = events[i + 1]
      /\ Head(events) = events[1] /\ events' \in Seq({"data", "exit"})
  BY <1>1
<1>3. \A i \in 1..Len(events) :
        events[i] = IF reader = "done" /\ i = Len(events) THEN "exit" ELSE "data"
  BY DEF ExitLast
<1>4. \A i \in 1..Len(events') : events'[i] =
        IF reader' = "done" /\ i = Len(events') THEN "exit" ELSE "data"
  <2> TAKE i \in 1..Len(events')
  <2>1. i + 1 \in 1..Len(events) /\ (i = Len(events') <=> i + 1 = Len(events))
    BY <1>2
  <2>2. events[i + 1] = IF reader = "done" /\ i + 1 = Len(events) THEN "exit" ELSE "data"
    BY <1>3, <2>1
  <2>3. events'[i] = events[i + 1]
    BY <1>2
  <2> QED BY <2>1, <2>2, <2>3
<1>5. Len(events) = 1 => events' = <<>>
  BY <1>2
<1>6. Len(events) # 1 => events' # <<>>
  <2>1. Len(events) # 1 => Len(events') # 0
    BY <1>2
  <2>2. Len(<<>>) = 0
    OBVIOUS
  <2> QED BY <2>1, <2>2, Zenon
<1>7. events[1] = IF reader = "done" /\ Len(events) = 1 THEN "exit" ELSE "data"
  <2>1. 1 \in 1..Len(events)
    BY <1>2
  <2> QED BY <1>3, <2>1
<1>8. Head(events) = events[1] /\ Len(events') = Len(events) - 1
  BY <1>2
<1> QED BY <1>4, <1>5, <1>6, <1>7, <1>8

\* A step of the editor, the actor, the child or the thread.
LEMMA OutputStep ==
  ASSUME TypeOK, LocalInv, Next, place = "local"
  PROVE  (phase = "up" /\ Unborn /\ ExitLast /\ Accounted /\ AllShown)'
<1> USE DEF LocalInv, here, actor, host, stream
<1>a. phase = "up" /\ Unborn /\ ExitLast /\ Accounted /\ AllShown /\ OneOpening
  BY DEF Unborn
<1>t. /\ ed.shown \in Nat /\ child.printed \in Nat /\ pty.out \in Nat
      /\ Len(events) \in Nat /\ Len(cmds) \in Nat
      /\ DOMAIN ed = {"kind", "emu", "shown"}
      /\ DOMAIN child = {"state", "held", "printed", "own"}
      /\ DOMAIN pty = {"inp", "out"}
      /\ "closed" \in DOMAIN hist
  BY DEF TypeOK, TermBuffer, Process, Kernel, Events, Commands, History
<1>n. /\ ed.shown \in Nat /\ child.printed \in Nat /\ pty.out \in Nat
      /\ Len(events) \in Nat /\ InHand \in Int
  BY <1>t DEF InHand
<1>0. ASSUME UNCHANGED <<phase, ed, cmds, child, pty, reader, events, hist>>
      PROVE  (phase = "up" /\ Unborn /\ ExitLast /\ Accounted /\ AllShown)'
  BY <1>0, <1>a DEF Unborn, OneOpening, Opening, ExitLast, Accounted, InHand, AllShown
<1>1. CASE Open
  <2>1. cmds' = <<"open">> /\ ed'.kind = "live" /\ ed'.emu /\ ed'.shown = ed.shown
        /\ hist'.closed = hist.closed /\ UNCHANGED <<phase, child, pty, reader, events>>
    BY <1>1, <1>a, <1>t DEF Open, Command, Published, Unborn
  <2>2. (Unborn)'
    BY <1>1, <2>1, <1>a DEF Unborn, OneOpening, Open
  <2>3. (ExitLast)' /\ (Accounted)' /\ (AllShown)'
    BY <1>1, <2>1, <1>a DEF Open, Unborn, ExitLast, Accounted, InHand, AllShown
  <2> QED BY <1>a, <2>1, <2>2, <2>3
<1>2. CASE Type \/ Wipe
  <2>1. PICK c \in {"write", "kill"} : cmds' = Append(cmds, c)
    BY <1>2 DEF Type, Wipe, Command, Published
  <2>2. OneOpening' /\ (Opening' => Opening)
    BY <1>a, <2>1, LaterCommand
  <2>3. /\ ed.kind # "none" /\ ed'.kind # "none" /\ (ed'.kind = "live" => ed' = ed)
        /\ (ed.kind \in {"exited", "wiped"} => ed'.kind \in {"exited", "wiped"})
        /\ ed'.shown = ed.shown /\ hist'.closed = hist.closed
        /\ UNCHANGED <<phase, child, pty, reader, events>>
    BY <1>2, <1>t DEF Type, Wipe
  <2>4. (Unborn)'
    BY <1>a, <2>2, <2>3 DEF Unborn
  <2>5. (ExitLast)' /\ (Accounted)'
    BY <1>a, <2>3 DEF ExitLast, Accounted, InHand
  <2>6. (AllShown)'
    BY <1>a, <2>2, <2>3 DEF AllShown
  <2> QED BY <1>a, <2>3, <2>4, <2>5, <2>6
<1>3. CASE OnTermEvents
  <2>1. /\ events # <<>> /\ events' = Tail(events) /\ Fed(Head(events))
        /\ UNCHANGED <<place, phase, cmds, child, pty, reader>>
    BY <1>3 DEF OnTermEvents
  <2>2. /\ ed.kind # "none" /\ ~Opening
    BY <1>a, <2>1 DEF Unborn
  <2>3. hist.closed # "exit"
    BY <1>a, <2>1 DEF AllShown
  <2>4. /\ Len(events') = Len(events) - 1
        /\ \A i \in 1..Len(events') : events'[i] =
              IF reader' = "done" /\ i = Len(events') THEN "exit" ELSE "data"
        /\ Head(events) = "data" /\ reader = "done" => events' # <<>>
        /\ Head(events) # "data" => /\ Head(events) = "exit" /\ events' = <<>>
                                   /\ reader = "done"
    BY <1>a, <2>1, TakenEvent
  <2>5. CASE Head(events) = "data"
    <3>1. /\ ed'.kind = ed.kind /\ ed'.emu = ed.emu /\ hist'.closed = hist.closed
          /\ (ed.emu => ed'.shown = ed.shown + 1)
      BY <2>1, <2>5, <1>t DEF Fed
    <3>2. (Unborn)' /\ (ExitLast)' /\ (AllShown)'
      BY <1>a, <2>1, <2>2, <2>3, <2>4, <2>5, <3>1
      DEF Unborn, OneOpening, Opening, ExitLast, AllShown
    <3>3. (Accounted)'
      <4>1. InHand' = InHand
        BY <2>1 DEF InHand
      <4>2. Len(events') = Len(events) - 1
        BY <2>4
      <4>3. child' = child /\ pty' = pty
        BY <2>1
      <4>4. CASE ed.kind = "live"
        <5>1. ed.emu /\ child.printed = ed.shown + Len(events) + InHand + pty.out
          BY <1>a, <4>4 DEF Accounted
        <5>2. ed'.shown + Len(events') = ed.shown + Len(events)
          BY <1>n, <3>1, <4>2, <5>1
        <5>3. ed'.shown \in Nat /\ Len(events') \in Int
          BY <1>n, <3>1, <4>2, <5>1
        <5> QED BY <1>n, <3>1, <4>1, <4>3, <5>1, <5>2, <5>3 DEF Accounted
      <4> QED BY <3>1, <4>4 DEF Accounted
    <3> QED BY <1>a, <2>1, <3>2, <3>3
  <2>6. CASE Head(events) # "data"
    <3>1. /\ ed'.kind = IF ed.kind = "live" THEN "exited" ELSE ed.kind
          /\ ed'.shown = ed.shown
          /\ hist'.closed = IF ed.kind = "live" THEN "exit" ELSE hist.closed
      BY <2>1, <2>4, <2>6, <1>t DEF Fed
    <3>2. (Unborn)' /\ (ExitLast)' /\ (Accounted)'
      BY <1>a, <2>1, <2>2, <2>4, <2>6, <3>1
      DEF Unborn, OneOpening, Opening, ExitLast, Accounted
    <3>3. ed.kind = "live" => ed.shown = child.printed
      BY <1>a, <1>t, <2>4, <2>6 DEF ExitLast, Accounted, InHand
    <3>4. (AllShown)'
      BY <2>1, <2>2, <2>3, <2>4, <2>6, <3>1, <3>3 DEF AllShown, Opening
    <3> QED BY <1>a, <2>1, <3>2, <3>4
  <2> QED BY <2>5, <2>6
<1>4. CASE OpenPty \/ OpenFails
  <2>1. /\ cmds # <<>> /\ cmds' = Tail(cmds) /\ Head(cmds) = "open"
    BY <1>4 DEF OpenPty, OpenFails, Take
  <2>2. OneOpening' /\ Opening /\ ~Opening'
    BY <1>a, <2>1, TakenCommand
  <2>3. /\ ed.kind # "none" /\ child.printed = 0 /\ pty.out = 0 /\ reader = "none"
        /\ events = <<>> /\ ed.shown = 0
    BY <1>a, <2>1, <2>2 DEF Unborn
  <2>4. /\ UNCHANGED <<phase, ed, events, hist>> /\ reader' = "reading"
        /\ child'.printed = pty'.out
    BY <1>4, <1>t, <2>3 DEF OpenPty, OpenFails
  <2>5. hist.closed # "exit"
    BY <1>a, <2>2 DEF AllShown
  <2>6. pty'.out \in Nat
    BY <1>4, <1>t DEF OpenPty, OpenFails
  <2>7. (Unborn)' /\ (ExitLast)' /\ (AllShown)'
    BY <1>a, <2>2, <2>3, <2>4, <2>5 DEF Unborn, ExitLast, AllShown
  <2>8. (Accounted)'
    BY <1>a, <2>3, <2>4, <2>6 DEF Accounted, InHand
  <2> QED BY <1>a, <2>4, <2>7, <2>8
<1>5. CASE TakeWrite \/ TakeKill
  <2>1. /\ cmds # <<>> /\ cmds' = Tail(cmds)
    BY <1>5 DEF TakeWrite, TakeKill, Take
  <2>2. OneOpening' /\ (Opening' => Opening)
    BY <1>a, <2>1, TakenCommand
  <2>3. /\ UNCHANGED <<phase, ed, pty, reader, events, hist>>
        /\ child'.printed = child.printed
        /\ child'.state = child.state \/ (child.state # "none" /\ child'.state = "dead")
    BY <1>5, <1>t DEF TakeWrite, TakeKill, host
  <2>4. ed.kind # "none"
    BY <1>a, <2>1 DEF Unborn
  <2>5. (Unborn)'
    BY <1>a, <2>2, <2>3, <2>4 DEF Unborn
  <2>6. (ExitLast)' /\ (Accounted)'
    BY <1>a, <2>3 DEF ExitLast, Accounted, InHand
  <2>7. (AllShown)'
    BY <1>a, <2>2, <2>3 DEF AllShown
  <2> QED BY <1>a, <2>3, <2>5, <2>6, <2>7
<1>6. CASE ActorWrites \/ ChildPrints \/ ChildExits
           \/ (\E answers \in BOOLEAN : ChildReads(answers))
  <2>1. /\ UNCHANGED <<phase, ed, cmds, reader, events, hist>>
        /\ pty'.out = pty.out /\ child'.printed = child.printed
        /\ child'.state = child.state \/ (child.state # "none" /\ child'.state = "dead")
    BY <1>6, <1>t DEF ActorWrites, ChildPrints, ChildExits, ChildReads
  <2>2. (Unborn)' /\ (AllShown)'
    BY <1>a, <2>1 DEF Unborn, OneOpening, Opening, AllShown
  <2>3. (ExitLast)' /\ (Accounted)'
    BY <1>a, <2>1 DEF ExitLast, Accounted, InHand
  <2> QED BY <1>a, <2>1, <2>2, <2>3
<1>7. CASE ChildWrites
  <2>1. /\ child.state = "running" /\ child'.state = "running"
        /\ UNCHANGED <<phase, ed, cmds, reader, events, hist>>
        /\ pty'.out = pty.out + 1 /\ child'.printed = child.printed + 1
    BY <1>7, <1>t DEF ChildWrites
  <2>2. (Unborn)' /\ (ExitLast)'
    BY <1>a, <2>1 DEF Unborn, OneOpening, Opening, ExitLast
  <2>3. (Accounted)'
    <3>1. InHand' = InHand /\ Len(events') = Len(events)
      BY <2>1 DEF InHand
    <3>2. ed.kind = "live" =>
            ed.emu /\ child.printed = ed.shown + Len(events) + InHand + pty.out
      BY <1>a DEF Accounted
    <3>3. child.printed = ed.shown + Len(events) + InHand + pty.out
            => child'.printed = ed'.shown + Len(events') + InHand' + pty'.out
      <4>1. ed'.shown = ed.shown
        BY <2>1
      <4>2. pty'.out = pty.out + 1 /\ child'.printed = child.printed + 1
        BY <2>1
      <4> QED BY <1>n, <3>1, <4>1, <4>2
    <3> QED BY <2>1, <3>2, <3>3 DEF Accounted
  <2>4. (AllShown)'
    BY <1>a, <2>1 DEF ExitLast, AllShown
  <2> QED BY <1>a, <2>1, <2>2, <2>3, <2>4
<1>8. CASE ReaderReads \/ ReaderEnds
  <2>1. /\ reader = "reading" /\ UNCHANGED <<phase, ed, cmds, child, events, hist>>
        /\ \/ pty'.out = pty.out - 1 /\ reader' = "data"
           \/ pty' = pty /\ pty.out = 0 /\ child.state = "dead" /\ reader' = "exit"
    BY <1>8, <1>t DEF ReaderReads, ReaderEnds
  <2>2. (Unborn)' /\ (AllShown)'
    BY <1>a, <2>1 DEF Unborn, OneOpening, Opening, AllShown
  <2>3. (ExitLast)'
    BY <1>a, <2>1 DEF ExitLast
  <2>4. (Accounted)'
    BY <1>a, <1>t, <2>1 DEF Accounted, InHand
  <2> QED BY <1>a, <2>1, <2>2, <2>3, <2>4
<1>9. CASE ReaderSends
  <2>1. /\ reader \in {"data", "exit"} /\ events' = Append(events, reader)
        /\ reader' = IF reader = "data" THEN "reading" ELSE "done"
        /\ UNCHANGED <<phase, ed, cmds, child, pty, hist>>
    BY <1>9 DEF ReaderSends
  <2>2. /\ Len(events') = Len(events) + 1
        /\ \A i \in 1..Len(events') : events'[i] =
              IF reader' = "done" /\ i = Len(events') THEN "exit" ELSE "data"
    BY <1>a, <2>1, LaterEvent
  <2>3. (Unborn)' /\ (AllShown)'
    BY <1>a, <2>1 DEF Unborn, OneOpening, Opening, AllShown
  <2>4. events' # <<>>
    BY <1>t, <2>2
  <2>5. (ExitLast)'
    BY <1>a, <2>1, <2>2, <2>4 DEF ExitLast
  <2>6. (Accounted)'
    BY <1>a, <1>t, <2>1, <2>2 DEF Accounted, InHand
  <2> QED BY <1>a, <2>1, <2>3, <2>5, <2>6
<1>10. CASE LinkReads \/ Split \/ TermDemux
  <2>1. UNCHANGED <<phase, ed, cmds, child, pty, reader, events>>
        /\ hist'.closed = hist.closed
    BY <1>10, <1>t DEF LinkReads, Split, TermDemux
  <2> QED
    BY <1>a, <2>1 DEF Unborn, OneOpening, Opening, ExitLast, Accounted, InHand, AllShown
<1>11. ~Forward /\ ~PushOther /\ ~WriterSends /\ ~SeeOutage /\ ~Reconnect /\ ~Resync
       /\ (\A handed \in BOOLEAN : ~Drop(handed))
  BY <1>a DEF Forward, PushOther, WriterSends, DaemonRuns, SeeOutage, Reconnect, Resync,
              Drop
<1> QED
  BY <1>1, <1>2, <1>3, <1>4, <1>5, <1>6, <1>7, <1>8, <1>9, <1>10, <1>11
  DEF Next, Actor, Child, Reader, Daemon, Link

\* An exit closes a local terminal's buffer only when all the child printed is
\* shown in it: whatever is in the kernel, in the thread's hand or in the
\* channel comes before the exit (open_pty).
THEOREM LocalOutputShown == Spec => []LocalOutputKept
<1>1. Init => LocalInv
  BY DEF Init, LocalInv, Unborn, OneOpening, Opening, ExitLast, Accounted, InHand, AllShown
<1>2. TypeOK /\ LocalInv /\ [Next]_vars => LocalInv'
  <2> SUFFICES ASSUME TypeOK, LocalInv, [Next]_vars, place' = "local"
               PROVE  LocalInv'
    BY DEF LocalInv
  <2>1. place = "local"
    BY DEF Next, vars, here, Open, Type, Wipe, OnTermEvents, Actor, OpenPty, OpenFails,
           TakeWrite, TakeKill, ActorWrites, Child, ChildPrints, ChildWrites, ChildReads,
           ChildExits, Reader, ReaderReads, ReaderEnds, ReaderSends, Daemon, Forward,
           WriterSends, PushOther, Link, LinkReads, Split, TermDemux, Drop, SeeOutage,
           Reconnect, Resync
  <2>2. CASE Next
    BY <2>1, <2>2, OutputStep DEF LocalInv
  <2>3. CASE UNCHANGED vars
    BY <2>3 DEF vars, LocalInv, Unborn, OneOpening, Opening, ExitLast, Accounted, InHand,
                AllShown
  <2> QED BY <2>2, <2>3
<1>3. LocalInv => LocalOutputKept
  BY DEF LocalInv, AllShown, LocalOutputKept
<1>4. Spec => []TypeOK
  BY TerminalTypeCorrect
<1> QED
  BY <1>1, <1>2, <1>3, <1>4, PTL DEF Spec

-----------------------------------------------------------------------------
(* Until the link drops: a chunk or a push leaves a queue only for the       *)
(* next one, wherever the terminal runs.                                     *)

\* How often m is in the queue s.
Copies(m, s) == Cardinality({i \in 1..Len(s) : s[i] = m})

\* What putting an element in a queue and taking one out does to its counts.
LEMMA CopiesNat ==
  ASSUME NEW A, NEW s \in Seq(A), NEW m
  PROVE  Copies(m, s) \in Nat
<1>1. IsFiniteSet(1..Len(s))
  BY FS_Interval
<1>2. IsFiniteSet({i \in 1..Len(s) : s[i] = m})
  BY <1>1, FS_Subset
<1> QED
  BY <1>2, FS_CardinalityType DEF Copies

LEMMA CopiesAppend ==
  ASSUME NEW A, NEW s \in Seq(A), NEW x \in A, NEW m
  PROVE  Copies(m, Append(s, x)) = Copies(m, s) + (IF x = m THEN 1 ELSE 0)
<1> DEFINE old == {i \in 1..Len(s) : s[i] = m}
<1> DEFINE new == {i \in 1..Len(Append(s, x)) : Append(s, x)[i] = m}
<1>1. /\ Len(s) \in Nat /\ Len(Append(s, x)) = Len(s) + 1
      /\ \A i \in 1..Len(s) : Append(s, x)[i] = s[i]
      /\ Append(s, x)[Len(s) + 1] = x
  OBVIOUS
<1>2. IsFiniteSet(old)
  <2>1. IsFiniteSet(1..Len(s))
    BY FS_Interval
  <2> QED
    BY <2>1, FS_Subset
<1>3. CASE x = m
  <2>1. new = old \cup {Len(s) + 1} /\ Len(s) + 1 \notin old
    BY <1>1, <1>3
  <2> HIDE DEF old, new
  <2>2. Cardinality(new) = Cardinality(old) + 1
    BY <1>2, <2>1, FS_AddElement
  <2> QED
    BY <1>3, <2>2 DEF Copies, old, new
<1>4. CASE x # m
  <2>1. new = old
    BY <1>1, <1>4
  <2>2. Copies(m, s) \in Nat
    BY CopiesNat
  <2>3. Copies(m, Append(s, x)) = Copies(m, s)
    <3> HIDE DEF old, new
    <3> QED
      BY <2>1 DEF Copies, old, new
  <2> QED
    BY <1>4, <2>2, <2>3
<1> QED
  BY <1>3, <1>4

LEMMA CopiesTail ==
  ASSUME NEW A, NEW s \in Seq(A), s # <<>>, NEW m
  PROVE  Copies(m, s) = Copies(m, Tail(s)) + (IF Head(s) = m THEN 1 ELSE 0)
<1> DEFINE new == {i \in 1..Len(Tail(s)) : Tail(s)[i] = m}
<1> DEFINE rest == {i \in 2..Len(s) : s[i] = m}
<1> DEFINE F == [i \in new |-> i + 1]
<1>1. /\ Len(s) \in Nat /\ Len(s) > 0 /\ Len(Tail(s)) = Len(s) - 1
      /\ \A i \in 1..Len(Tail(s)) : Tail(s)[i] = s[i + 1]
      /\ Head(s) = s[1] /\ Tail(s) \in Seq(A)
  OBVIOUS
<1>2. F \in [new -> rest]
  BY <1>1
<1>3. \A i, j \in new : F[i] = F[j] => i = j
  OBVIOUS
<1>4. \A k \in rest : \E i \in new : F[i] = k
  <2> SUFFICES ASSUME NEW k \in rest PROVE k - 1 \in new /\ F[k - 1] = k
    OBVIOUS
  <2>1. k - 1 \in 1..Len(Tail(s)) /\ (k - 1) + 1 = k /\ s[k] = m
    BY <1>1
  <2>2. Tail(s)[k - 1] = s[k]
    BY <1>1, <2>1
  <2>3. k - 1 \in new
    BY <2>1, <2>2
  <2> QED
    BY <2>1, <2>3
<1>5. IsFiniteSet(new)
  <2>1. IsFiniteSet(1..Len(Tail(s)))
    BY <1>1, FS_Interval
  <2> QED
    BY <2>1, FS_Subset
<1> HIDE DEF F
<1>6. F \in Bijection(new, rest)
  BY <1>2, <1>3, <1>4 DEF Bijection, Injection, IsInjective, Surjection
<1>7. IsFiniteSet(rest) /\ Cardinality(rest) = Cardinality(new)
  <2>1. ExistsBijection(new, rest)
    BY <1>6 DEF ExistsBijection
  <2> HIDE DEF new, rest
  <2> QED
    BY <1>5, <2>1, FS_Bijection
<1>8. CASE Head(s) = m
  <2>1. {i \in 1..Len(s) : s[i] = m} = rest \cup {1} /\ 1 \notin rest
    BY <1>1, <1>8
  <2> HIDE DEF new, rest
  <2>2. Cardinality(rest \cup {1}) = Cardinality(rest) + 1
    BY <1>7, <2>1, FS_AddElement
  <2> QED
    BY <1>7, <1>8, <2>1, <2>2 DEF Copies, new
<1>9. CASE Head(s) # m
  <2>1. {i \in 1..Len(s) : s[i] = m} = rest
    BY <1>1, <1>9
  <2>2. Copies(m, Tail(s)) \in Nat
    BY <1>1, CopiesNat
  <2>3. Copies(m, s) = Copies(m, Tail(s))
    <3> HIDE DEF new, rest
    <3> QED
      BY <1>7, <2>1 DEF Copies, new
  <2> QED
    BY <1>9, <2>2, <2>3
<1> QED
  BY <1>8, <1>9

LEMMA CopiesNone == ASSUME NEW m PROVE Copies(m, <<>>) = 0
BY FS_EmptySet DEF Copies

\* The frames between the daemon's leg and the splitter, ...
Framed(m) ==
  Copies(m, wire.ctl) + Copies(m, wire.stream) + Copies(m, wire.sent)
    + Copies(m, inbox.shared)

\* ... the terminal's output, from its reader to the run loop, ...
Chunks ==
  Copies("data", events) + Framed("data")
    + Copies("data", inbox.group) + Copies("data", inbox.events)

\* ... and what the other legs pushed and the splitter has not handed on.
Pushes == Framed("push")

Held == IF reader = "data" THEN 1 ELSE 0

Whole ==
  /\ ed.kind = "live" =>
       ed.emu /\ child.printed = ed.shown + Chunks + Held + pty.out
  /\ hist.pushed = hist.delivered + Pushes

(* Local or remote and however full the queues are: every chunk the child   *)
(* of an open terminal printed is shown, in one of the seven queues, in the *)
(* reader's hand or in the kernel, once, and every push of another leg is   *)
(* delivered or queued.                                                     *)
NothingLost == hist.drops = 0 => Whole

\* Before the actor took the command that opens it, a terminal has no output.
Before ==
  /\ OneOpening
  /\ ed.kind = "none" => cmds = <<>> /\ ed.shown = 0 /\ Chunks = 0
  /\ ed.kind = "none" \/ Opening =>
       child.state = "none" /\ child.printed = 0 /\ pty.out = 0 /\ reader = "none"

FlowInv == hist.drops = 0 => phase = "up" /\ Before /\ Whole

\* The same, for the queues of frames of the model.
LEMMA FrameCounts ==
  ASSUME NEW q \in Frames, NEW m
  PROVE  /\ Copies(m, q) \in Nat
         /\ \A x \in {"data", "exit", "push"} :
              Copies(m, Append(q, x)) = Copies(m, q) + (IF x = m THEN 1 ELSE 0)
         /\ q # <<>> =>
              /\ Head(q) \in {"data", "exit", "push"}
              /\ Copies(m, Tail(q)) = Copies(m, q) - (IF Head(q) = m THEN 1 ELSE 0)
<1>1. q \in Seq({"data", "exit", "push"})
  BY DEF Frames
<1>2. Copies(m, q) \in Nat
  BY <1>1, CopiesNat
<1>3. \A x \in {"data", "exit", "push"} :
        Copies(m, Append(q, x)) = Copies(m, q) + (IF x = m THEN 1 ELSE 0)
  BY <1>1, CopiesAppend
<1>4. ASSUME q # <<>>
      PROVE  /\ Head(q) \in {"data", "exit", "push"}
             /\ Copies(m, Tail(q)) = Copies(m, q) - (IF Head(q) = m THEN 1 ELSE 0)
  <2>1. Head(q) \in {"data", "exit", "push"} /\ Tail(q) \in Seq({"data", "exit", "push"})
    BY <1>1, <1>4
  <2>2. Copies(m, Tail(q)) \in Nat
    BY <2>1, CopiesNat
  <2>3. Copies(m, q) = Copies(m, Tail(q)) + (IF Head(q) = m THEN 1 ELSE 0)
    BY <1>1, <1>4, CopiesTail
  <2> QED
    BY <2>1, <2>2, <2>3
<1> QED
  BY <1>2, <1>3, <1>4

LEMMA TailIsFrames == ASSUME NEW q \in Frames, q # <<>> PROVE Tail(q) \in Frames
BY DEF Frames

\* The queues of a state and what each counts.
LEMMA QueueTypes ==
  ASSUME TypeOK
  PROVE  /\ events \in Frames /\ {"ctl", "stream", "sent"} \subseteq DOMAIN wire
         /\ wire.ctl \in Frames /\ wire.stream \in Frames /\ wire.sent \in Frames
         /\ inbox.shared \in Frames /\ inbox.group \in Frames /\ inbox.events \in Frames
         /\ {"shared", "group", "events"} \subseteq DOMAIN inbox
<1>1. events \in Frames
  <2>1. Seq({"data", "exit"}) \subseteq Seq({"data", "exit", "push"})
    OBVIOUS
  <2> QED
    BY <2>1 DEF TypeOK, Events, Frames
<1>2. wire \in Wire /\ inbox \in Inbox
  BY DEF TypeOK
<1>3. /\ {"ctl", "stream", "sent"} \subseteq DOMAIN wire
      /\ wire.ctl \in Frames /\ wire.stream \in Frames /\ wire.sent \in Frames
  BY <1>2 DEF Wire
<1>4. /\ {"shared", "group", "events"} \subseteq DOMAIN inbox
      /\ inbox.shared \in Frames /\ inbox.group \in Frames /\ inbox.events \in Frames
  BY <1>2 DEF Inbox
<1> QED
  BY <1>1, <1>3, <1>4

LEMMA CountTypes ==
  ASSUME TypeOK
  PROVE  /\ Chunks \in Nat /\ Pushes \in Nat /\ \A m : Framed(m) \in Nat
         /\ \A m : /\ Copies(m, events) \in Nat /\ Copies(m, wire.ctl) \in Nat
                   /\ Copies(m, wire.stream) \in Nat /\ Copies(m, wire.sent) \in Nat
                   /\ Copies(m, inbox.shared) \in Nat
                   /\ Copies(m, inbox.group) \in Nat /\ Copies(m, inbox.events) \in Nat
<1>1. ASSUME NEW m
      PROVE  /\ Copies(m, events) \in Nat /\ Copies(m, wire.ctl) \in Nat
             /\ Copies(m, wire.stream) \in Nat /\ Copies(m, wire.sent) \in Nat
             /\ Copies(m, inbox.shared) \in Nat
             /\ Copies(m, inbox.group) \in Nat /\ Copies(m, inbox.events) \in Nat
  BY QueueTypes, FrameCounts
<1>2. ASSUME NEW m PROVE Framed(m) \in Nat
  BY <1>1 DEF Framed
<1>3. Chunks \in Nat /\ Pushes \in Nat
  BY <1>1, <1>2 DEF Chunks, Pushes
<1> QED
  BY <1>1, <1>2, <1>3

\* What is counted depends on the queues alone.
LEMMA SameCounts ==
  ASSUME UNCHANGED <<wire, inbox>>
  PROVE  /\ \A m : Framed(m)' = Framed(m)
         /\ Pushes' = Pushes
         /\ events' = events => Chunks' = Chunks
BY DEF Framed, Pushes, Chunks

\* A frame that goes from one queue of the link to the next is still counted.
LEMMA FrameMoves ==
  ASSUME TypeOK, WriterSends \/ LinkReads
  PROVE  Chunks' = Chunks /\ Pushes' = Pushes
<1> USE DEF actor, host, stream, here
<1>q. /\ {"ctl", "stream", "sent"} \subseteq DOMAIN wire
      /\ {"shared", "group", "events"} \subseteq DOMAIN inbox
      /\ wire.ctl \in Frames /\ wire.stream \in Frames /\ wire.sent \in Frames
      /\ inbox.shared \in Frames
  BY QueueTypes
<1>1. ASSUME NEW m PROVE Framed(m)' = Framed(m)
  <2>n. /\ Copies(m, wire.ctl) \in Nat /\ Copies(m, wire.stream) \in Nat
        /\ Copies(m, wire.sent) \in Nat /\ Copies(m, inbox.shared) \in Nat
    BY CountTypes
  <2>1. CASE WriterSends /\ wire.ctl # <<>>
    <3>1. /\ wire'.ctl = Tail(wire.ctl) /\ wire'.sent = Append(wire.sent, Head(wire.ctl))
          /\ wire'.stream = wire.stream /\ inbox' = inbox
      BY <1>q, <2>1 DEF WriterSends
    <3>2. /\ Head(wire.ctl) \in {"data", "exit", "push"}
          /\ Copies(m, Tail(wire.ctl))
               = Copies(m, wire.ctl) - (IF Head(wire.ctl) = m THEN 1 ELSE 0)
      BY <1>q, <2>1, FrameCounts
    <3>3. Copies(m, Append(wire.sent, Head(wire.ctl)))
            = Copies(m, wire.sent) + (IF Head(wire.ctl) = m THEN 1 ELSE 0)
      BY <1>q, <3>2, FrameCounts
    <3> QED
      BY <2>n, <3>1, <3>2, <3>3 DEF Framed
  <2>2. CASE WriterSends /\ wire.ctl = <<>>
    <3>1. /\ wire'.stream = Tail(wire.stream) /\ wire.stream # <<>>
          /\ wire'.sent = Append(wire.sent, Head(wire.stream))
          /\ wire'.ctl = wire.ctl /\ inbox' = inbox
      BY <1>q, <2>2 DEF WriterSends
    <3>2. /\ Head(wire.stream) \in {"data", "exit", "push"}
          /\ Copies(m, Tail(wire.stream))
               = Copies(m, wire.stream) - (IF Head(wire.stream) = m THEN 1 ELSE 0)
      BY <1>q, <3>1, FrameCounts
    <3>3. Copies(m, Append(wire.sent, Head(wire.stream)))
            = Copies(m, wire.sent) + (IF Head(wire.stream) = m THEN 1 ELSE 0)
      BY <1>q, <3>2, FrameCounts
    <3> QED
      BY <2>n, <3>1, <3>2, <3>3 DEF Framed
  <2>3. CASE LinkReads
    <3>1. /\ wire'.sent = Tail(wire.sent) /\ wire.sent # <<>>
          /\ inbox'.shared = Append(inbox.shared, Head(wire.sent))
          /\ wire'.ctl = wire.ctl /\ wire'.stream = wire.stream
      BY <1>q, <2>3 DEF LinkReads
    <3>2. /\ Head(wire.sent) \in {"data", "exit", "push"}
          /\ Copies(m, Tail(wire.sent))
               = Copies(m, wire.sent) - (IF Head(wire.sent) = m THEN 1 ELSE 0)
      BY <1>q, <3>1, FrameCounts
    <3>3. Copies(m, Append(inbox.shared, Head(wire.sent)))
            = Copies(m, inbox.shared) + (IF Head(wire.sent) = m THEN 1 ELSE 0)
      BY <1>q, <3>2, FrameCounts
    <3> QED
      BY <2>n, <3>1, <3>2, <3>3 DEF Framed
  <2> QED
    BY <2>1, <2>2, <2>3
<1>2. events' = events /\ inbox'.group = inbox.group /\ inbox'.events = inbox.events
  BY <1>q DEF WriterSends, LinkReads
<1> QED
  BY <1>1, <1>2 DEF Chunks, Pushes

\* The leg's forwarder, the splitter and the demux keep the output, and the
\* splitter hands on what it takes of the pushes.
LEMMA LegMoves ==
  ASSUME TypeOK, Forward \/ Split \/ TermDemux
  PROVE  /\ Chunks' = Chunks
         /\ hist'.pushed = hist.pushed
         /\ hist'.delivered + Pushes' = hist.delivered + Pushes
         /\ hist'.drops = hist.drops
<1> USE DEF actor, host, stream, here
<1>q. /\ {"ctl", "stream", "sent"} \subseteq DOMAIN wire
      /\ {"shared", "group", "events"} \subseteq DOMAIN inbox
      /\ wire.ctl \in Frames /\ wire.stream \in Frames /\ events \in Frames
      /\ inbox.shared \in Frames /\ inbox.group \in Frames /\ inbox.events \in Frames
  BY QueueTypes
<1>h. /\ {"pushed", "delivered", "drops"} \subseteq DOMAIN hist
      /\ hist.delivered \in Nat /\ Pushes \in Nat
  BY CountTypes DEF TypeOK, History
<1>n. ASSUME NEW m
      PROVE  /\ Copies(m, events) \in Nat /\ Copies(m, wire.ctl) \in Nat
             /\ Copies(m, wire.stream) \in Nat /\ Copies(m, wire.sent) \in Nat
             /\ Copies(m, inbox.shared) \in Nat
             /\ Copies(m, inbox.group) \in Nat /\ Copies(m, inbox.events) \in Nat
  BY CountTypes
<1>d. /\ Copies("data", events) \in Nat /\ Framed("data") \in Nat
      /\ Copies("data", inbox.shared) \in Nat
      /\ Copies("data", inbox.group) \in Nat /\ Copies("data", inbox.events) \in Nat
  BY CountTypes
<1>1. CASE Forward
  <2>0. UNCHANGED <<inbox, hist>> /\ wire'.sent = wire.sent
        /\ events # <<>> /\ events' = Tail(events)
    BY <1>1, <1>q DEF Forward
  <2>1. Copies("data", Tail(events))
          = Copies("data", events) - (IF Head(events) = "data" THEN 1 ELSE 0)
    BY <1>q, <2>0, FrameCounts
  <2>2. CASE Head(events) = "data"
    <3>1. wire'.stream = Append(wire.stream, "data") /\ wire'.ctl = wire.ctl
      BY <1>1, <1>q, <2>2 DEF Forward
    <3>2. /\ Copies("data", Append(wire.stream, "data")) = Copies("data", wire.stream) + 1
          /\ Copies("push", Append(wire.stream, "data")) = Copies("push", wire.stream)
      BY <1>q, <1>n, FrameCounts
    <3>3. Pushes' = Pushes
      BY <1>n, <2>0, <3>1, <3>2 DEF Pushes, Framed
    <3>4. Framed("data")' = Framed("data") + 1
      <4>1. /\ Copies("data", wire.ctl)' = Copies("data", wire.ctl)
            /\ Copies("data", wire.stream)' = Copies("data", wire.stream) + 1
            /\ Copies("data", wire.sent)' = Copies("data", wire.sent)
            /\ Copies("data", inbox.shared)' = Copies("data", inbox.shared)
        BY <2>0, <3>1, <3>2
      <4>2. /\ Copies("data", wire.ctl) \in Nat /\ Copies("data", wire.stream) \in Nat
            /\ Copies("data", wire.sent) \in Nat /\ Copies("data", inbox.shared) \in Nat
        BY <1>n
      <4> QED
        BY <4>1, <4>2 DEF Framed
    <3>5. Copies("data", events)' = Copies("data", events) - 1
      BY <2>0, <2>1, <2>2
    <3>6. /\ Copies("data", inbox.group)' = Copies("data", inbox.group)
          /\ Copies("data", inbox.events)' = Copies("data", inbox.events)
      BY <2>0
    <3>7. Chunks' = Chunks
      BY <1>d, <3>4, <3>5, <3>6 DEF Chunks
    <3> QED
      BY <2>0, <3>3, <3>7
  <2>3. CASE Head(events) # "data"
    <3>1. wire'.ctl = Append(wire.ctl, "exit") /\ wire'.stream = wire.stream
      BY <1>1, <1>q, <2>3 DEF Forward
    <3>2. /\ Copies("data", Append(wire.ctl, "exit")) = Copies("data", wire.ctl)
          /\ Copies("push", Append(wire.ctl, "exit")) = Copies("push", wire.ctl)
      <4>1. Copies("data", wire.ctl) \in Nat /\ Copies("push", wire.ctl) \in Nat
        BY <1>n
      <4>2. \A m \in {"data", "push"} :
              Copies(m, Append(wire.ctl, "exit"))
                = Copies(m, wire.ctl) + (IF "exit" = m THEN 1 ELSE 0)
        BY <1>q, FrameCounts
      <4> QED
        BY <4>1, <4>2
    <3>3. Pushes' = Pushes
      BY <1>n, <2>0, <3>1, <3>2 DEF Pushes, Framed
    <3>4. Framed("data")' = Framed("data")
      BY <2>0, <3>1, <3>2 DEF Framed
    <3>5. Copies("data", events)' = Copies("data", events)
      <4>1. Copies("data", events) \in Nat
        BY <1>n
      <4> QED
        BY <2>0, <2>1, <2>3, <4>1
    <3>6. Chunks' = Chunks
      BY <2>0, <3>4, <3>5 DEF Chunks
    <3> QED
      BY <2>0, <3>3, <3>6
  <2> QED
    BY <2>2, <2>3
<1>2. CASE Split
  <2>0. UNCHANGED <<wire, events>> /\ inbox.shared # <<>>
        /\ inbox'.shared = Tail(inbox.shared) /\ inbox'.events = inbox.events
    BY <1>2, <1>q DEF Split
  <2>1. /\ Head(inbox.shared) \in {"data", "exit", "push"}
        /\ \A m \in {"data", "push"} : Copies(m, Tail(inbox.shared))
             = Copies(m, inbox.shared) - (IF Head(inbox.shared) = m THEN 1 ELSE 0)
    BY <1>q, <2>0, FrameCounts
  <2>2. Framed("data")'
          = Framed("data") - (IF Head(inbox.shared) = "data" THEN 1 ELSE 0)
    <3>1. /\ Copies("data", wire.ctl)' = Copies("data", wire.ctl)
          /\ Copies("data", wire.stream)' = Copies("data", wire.stream)
          /\ Copies("data", wire.sent)' = Copies("data", wire.sent)
      BY <2>0
    <3>2. Copies("data", inbox.shared)'
            = Copies("data", inbox.shared) - (IF Head(inbox.shared) = "data" THEN 1 ELSE 0)
      BY <2>0, <2>1
    <3>3. /\ Copies("data", wire.ctl) \in Nat /\ Copies("data", wire.stream) \in Nat
          /\ Copies("data", wire.sent) \in Nat /\ Copies("data", inbox.shared) \in Nat
      BY <1>n
    <3> QED
      BY <3>1, <3>2, <3>3 DEF Framed
  <2>3. CASE Head(inbox.shared) # "push"
    <3>1. inbox'.group = Append(inbox.group, Head(inbox.shared)) /\ hist' = hist
      BY <1>2, <1>q, <2>3 DEF Split
    <3>2. Copies("data", Append(inbox.group, Head(inbox.shared)))
            = Copies("data", inbox.group) + (IF Head(inbox.shared) = "data" THEN 1 ELSE 0)
      BY <1>q, <2>1, FrameCounts
    <3>3. Pushes' = Pushes
      <4>1. Copies("push", inbox.shared)' = Copies("push", inbox.shared)
        <5>1. Copies("push", inbox.shared) \in Nat
          BY <1>n
        <5> QED
          BY <2>0, <2>1, <2>3, <5>1
      <4> QED
        BY <2>0, <4>1 DEF Pushes, Framed
    <3>4. /\ Copies("data", events)' = Copies("data", events)
          /\ Copies("data", inbox.events)' = Copies("data", inbox.events)
      BY <2>0
    <3>5. CASE Head(inbox.shared) = "data"
      <4>1. Framed("data")' = Framed("data") - 1
        BY <2>2, <3>5
      <4>2. Copies("data", inbox.group)' = Copies("data", inbox.group) + 1
        BY <3>1, <3>2, <3>5
      <4>3. Chunks' = Chunks
        BY <1>d, <3>4, <4>1, <4>2 DEF Chunks
      <4> QED
        BY <3>1, <3>3, <4>3
    <3>6. CASE Head(inbox.shared) # "data"
      <4>1. Framed("data")' = Framed("data")
        BY <1>d, <2>2, <3>6
      <4>2. Copies("data", inbox.group)' = Copies("data", inbox.group)
        BY <1>d, <3>1, <3>2, <3>6
      <4>3. Chunks' = Chunks
        BY <3>4, <4>1, <4>2 DEF Chunks
      <4> QED
        BY <3>1, <3>3, <4>3
    <3> QED
      BY <3>5, <3>6
  <2>4. CASE Head(inbox.shared) = "push"
    <3>1. /\ inbox'.group = inbox.group
          /\ hist'.pushed = hist.pushed /\ hist'.drops = hist.drops
          /\ hist'.delivered = hist.delivered + 1
      BY <1>2, <1>q, <1>h, <2>4 DEF Split
    <3>2. Pushes' = Pushes - 1
      <4>1. Copies("push", inbox.shared)' = Copies("push", inbox.shared) - 1
        BY <2>0, <2>1, <2>4
      <4>2. /\ Copies("push", wire.ctl)' = Copies("push", wire.ctl)
            /\ Copies("push", wire.stream)' = Copies("push", wire.stream)
            /\ Copies("push", wire.sent)' = Copies("push", wire.sent)
        BY <2>0
      <4>3. /\ Copies("push", wire.ctl) \in Nat /\ Copies("push", wire.stream) \in Nat
            /\ Copies("push", wire.sent) \in Nat /\ Copies("push", inbox.shared) \in Nat
        BY <1>n
      <4> QED
        BY <4>1, <4>2, <4>3 DEF Pushes, Framed
    <3>3. Framed("data")' = Framed("data")
      BY <1>d, <2>4, <2>2
    <3>4. Chunks' = Chunks
      BY <2>0, <3>1, <3>3 DEF Chunks
    <3> QED
      BY <1>h, <3>1, <3>2, <3>4
  <2> QED
    BY <2>3, <2>4
<1>3. CASE TermDemux
  <2>0. UNCHANGED <<wire, events, hist>> /\ inbox.group # <<>>
        /\ inbox'.shared = inbox.shared /\ inbox'.group = Tail(inbox.group)
        /\ inbox'.events = Append(inbox.events, Head(inbox.group))
    BY <1>3, <1>q DEF TermDemux
  <2>1. /\ Head(inbox.group) \in {"data", "exit", "push"}
        /\ Copies("data", Tail(inbox.group))
             = Copies("data", inbox.group) - (IF Head(inbox.group) = "data" THEN 1 ELSE 0)
    BY <1>q, <2>0, FrameCounts
  <2>2. Copies("data", Append(inbox.events, Head(inbox.group)))
          = Copies("data", inbox.events) + (IF Head(inbox.group) = "data" THEN 1 ELSE 0)
    BY <1>q, <2>1, FrameCounts
  <2>3. Pushes' = Pushes
    BY <2>0 DEF Pushes, Framed
  <2>4. Chunks' = Chunks
    BY <1>n, <2>0, <2>1, <2>2 DEF Chunks, Framed
  <2> QED
    BY <2>0, <2>3, <2>4
<1> QED
  BY <1>1, <1>2, <1>3

\* The run loop takes a chunk or an exit of the queue its terminal has.
LEMMA OutputTaken ==
  ASSUME TypeOK, OnTermEvents
  PROVE  \E m : /\ Fed(m)
                /\ m # "data" => Chunks' = Chunks
                /\ m = "data" => Chunks' = Chunks - 1 /\ Chunks # 0
<1>n. /\ Copies("data", events) \in Nat /\ Framed("data") \in Nat
      /\ Copies("data", inbox.group) \in Nat /\ Copies("data", inbox.events) \in Nat
  BY CountTypes
<1>q. /\ {"shared", "group", "events"} \subseteq DOMAIN inbox
      /\ events \in Frames /\ inbox.events \in Frames
  BY QueueTypes
<1>1. CASE place = "local"
  <2>1. /\ events # <<>> /\ Fed(Head(events)) /\ events' = Tail(events)
        /\ UNCHANGED <<wire, inbox>>
    BY <1>1 DEF OnTermEvents
  <2>2. Copies("data", Tail(events))
          = Copies("data", events) - (IF Head(events) = "data" THEN 1 ELSE 0)
    BY <1>q, <2>1, FrameCounts
  <2>3. Copies("data", Tail(events)) \in Nat
    BY <1>q, <2>1, TailIsFrames, FrameCounts
  <2>4. Framed("data")' = Framed("data")
    BY <2>1, SameCounts
  <2>5. /\ Copies("data", inbox.events)' = Copies("data", inbox.events)
        /\ Copies("data", inbox.group)' = Copies("data", inbox.group)
    BY <2>1
  <2>6. /\ Copies("data", events)' \in Nat
        /\ Copies("data", events)'
             = Copies("data", events) - (IF Head(events) = "data" THEN 1 ELSE 0)
    BY <2>1, <2>2, <2>3
  <2>7. CASE Head(events) = "data"
    <3>1. Copies("data", events)' = Copies("data", events) - 1
      BY <2>6, <2>7
    <3>2. Chunks' = Chunks - 1 /\ Chunks # 0
      BY <1>n, <2>4, <2>5, <2>6, <3>1 DEF Chunks
    <3> QED
      BY <2>1, <2>7, <3>2
  <2>8. CASE Head(events) # "data"
    <3>1. Copies("data", events)' = Copies("data", events)
      BY <1>n, <2>6, <2>8
    <3>2. Chunks' = Chunks
      BY <2>4, <2>5, <3>1 DEF Chunks
    <3> QED
      BY <2>1, <2>8, <3>2
  <2> QED
    BY <2>7, <2>8
<1>2. CASE place # "local"
  <2>1. /\ inbox.events # <<>> /\ Fed(Head(inbox.events))
        /\ inbox'.events = Tail(inbox.events) /\ inbox'.shared = inbox.shared
        /\ inbox'.group = inbox.group /\ UNCHANGED <<wire, events>>
    BY <1>2, <1>q DEF OnTermEvents
  <2>2. Copies("data", Tail(inbox.events))
          = Copies("data", inbox.events) - (IF Head(inbox.events) = "data" THEN 1 ELSE 0)
    BY <1>q, <2>1, FrameCounts
  <2>3. Copies("data", Tail(inbox.events)) \in Nat
    BY <1>q, <2>1, TailIsFrames, FrameCounts
  <2>4. Framed("data")' = Framed("data")
    BY <2>1 DEF Framed
  <2>5. /\ Copies("data", events)' = Copies("data", events)
        /\ Copies("data", inbox.group)' = Copies("data", inbox.group)
    BY <2>1
  <2>6. /\ Copies("data", inbox.events)' \in Nat
        /\ Copies("data", inbox.events)'
             = Copies("data", inbox.events) - (IF Head(inbox.events) = "data" THEN 1 ELSE 0)
    BY <2>1, <2>2, <2>3
  <2>7. CASE Head(inbox.events) = "data"
    <3>1. Copies("data", inbox.events)' = Copies("data", inbox.events) - 1
      BY <2>6, <2>7
    <3>2. Chunks' = Chunks - 1 /\ Chunks # 0
      BY <1>n, <2>4, <2>5, <2>6, <3>1 DEF Chunks
    <3> QED
      BY <2>1, <2>7, <3>2
  <2>8. CASE Head(inbox.events) # "data"
    <3>1. Copies("data", inbox.events)' = Copies("data", inbox.events)
      BY <1>n, <2>6, <2>8
    <3>2. Chunks' = Chunks
      BY <2>4, <2>5, <3>1 DEF Chunks
    <3> QED
      BY <2>1, <2>8, <3>2
  <2> QED
    BY <2>7, <2>8
<1> QED
  BY <1>1, <1>2

\* Another leg's push is one more on the way, and no output.
LEMMA OtherPushed ==
  ASSUME TypeOK, PushOther
  PROVE  Chunks' = Chunks /\ Pushes' = Pushes + 1
<1>q. {"ctl", "stream", "sent"} \subseteq DOMAIN wire /\ wire.ctl \in Frames
  BY QueueTypes
<1>n. ASSUME NEW m
      PROVE  /\ Copies(m, wire.ctl) \in Nat /\ Copies(m, wire.stream) \in Nat
             /\ Copies(m, wire.sent) \in Nat /\ Copies(m, inbox.shared) \in Nat
  BY CountTypes
<1>1. /\ wire'.ctl = Append(wire.ctl, "push") /\ wire'.stream = wire.stream
      /\ wire'.sent = wire.sent /\ UNCHANGED <<events, inbox>>
  BY <1>q DEF PushOther, host
<1>2. /\ Copies("push", Append(wire.ctl, "push")) = Copies("push", wire.ctl) + 1
      /\ Copies("data", Append(wire.ctl, "push")) = Copies("data", wire.ctl)
  BY <1>q, <1>n, FrameCounts
<1>3. Pushes' = Pushes + 1
  BY <1>n, <1>1, <1>2 DEF Pushes, Framed
<1>4. Framed("data")' = Framed("data")
  BY <1>1, <1>2 DEF Framed
<1> QED
  BY <1>1, <1>3, <1>4 DEF Chunks

\* A drop is not forgotten.
LEMMA DropsRemembered ==
  ASSUME TypeOK, Next, hist'.drops = 0
  PROVE  hist.drops = 0
<1>1. hist.drops \in Nat /\ "drops" \in DOMAIN hist
  BY DEF TypeOK, History
<1>2. \A handed \in BOOLEAN : ~Drop(handed)
  BY <1>1 DEF Drop
<1>3. hist'.drops = hist.drops
  BY <1>1, <1>2 DEF Next, here, actor, host, stream, Open, Type, Wipe, OnTermEvents, Fed,
       Actor, OpenPty, OpenFails, TakeWrite, TakeKill, ActorWrites, Child, ChildPrints,
       ChildWrites, ChildReads, ChildExits, Reader, ReaderReads, ReaderEnds, ReaderSends,
       Daemon, Forward, WriterSends, PushOther, Link, LinkReads, Split, TermDemux,
       SeeOutage, Reconnect, Resync
<1> QED
  BY <1>3

\* A step of the editor, the actor, the child, the thread or the link.
LEMMA FlowStep ==
  ASSUME TypeOK, hist.drops = 0, phase = "up", Before, Whole, Next, hist'.drops = 0
  PROVE  (phase = "up" /\ Before /\ Whole)'
<1> USE DEF here, actor, host, stream
<1>t. /\ ed.shown \in Nat /\ child.printed \in Nat /\ pty.out \in Nat
      /\ hist.pushed \in Nat /\ hist.delivered \in Nat
      /\ DOMAIN ed = {"kind", "emu", "shown"}
      /\ DOMAIN child = {"state", "held", "printed", "own"}
      /\ DOMAIN pty = {"inp", "out"}
      /\ {"drops", "pushed", "delivered"} \subseteq DOMAIN hist
  BY DEF TypeOK, TermBuffer, Process, Kernel, History
<1>n. Chunks \in Nat /\ Pushes \in Nat /\ Held \in Nat
  BY CountTypes DEF Held
<1>o. OneOpening
  BY DEF Before
<1>s. UNCHANGED <<events, wire, inbox>> => Chunks' = Chunks /\ Pushes' = Pushes
  BY SameCounts
<1>1. CASE Open
  <2>1. /\ ed.kind = "none" /\ cmds = <<>> /\ cmds' = <<"open">>
        /\ ed'.kind = "live" /\ ed'.emu /\ ed'.shown = ed.shown
        /\ hist'.pushed = hist.pushed /\ hist'.delivered = hist.delivered
        /\ UNCHANGED <<phase, child, pty, reader, events, wire, inbox>>
    BY <1>1, <1>t DEF Open, Command, Published, Before
  <2>2. /\ child.state = "none" /\ child.printed = 0 /\ pty.out = 0 /\ reader = "none"
        /\ ed.shown = 0 /\ Chunks = 0
    BY <2>1 DEF Before
  <2>3. Before'
    BY <2>1, <2>2 DEF Before, OneOpening
  <2>4. Whole'
    BY <1>s, <2>1, <2>2 DEF Whole, Held
  <2> QED
    BY <2>1, <2>3, <2>4
<1>2. CASE Type \/ Wipe
  <2>1. PICK c \in {"write", "kill"} : cmds' = Append(cmds, c)
    BY <1>2 DEF Type, Wipe, Command, Published
  <2>2. OneOpening' /\ (Opening' => Opening)
    BY <1>o, <2>1, LaterCommand
  <2>3. /\ ed.kind # "none" /\ ed'.kind # "none" /\ (ed'.kind = "live" => ed' = ed)
        /\ hist'.pushed = hist.pushed /\ hist'.delivered = hist.delivered
        /\ UNCHANGED <<phase, child, pty, reader, events, wire, inbox>>
    BY <1>2, <1>t DEF Type, Wipe
  <2>4. Before'
    BY <2>2, <2>3 DEF Before
  <2>5. Whole'
    BY <1>s, <2>3 DEF Whole, Held
  <2> QED
    BY <2>3, <2>4, <2>5
<1>3. CASE OnTermEvents
  <2>1. PICK m : /\ Fed(m)
                 /\ m # "data" => Chunks' = Chunks
                 /\ m = "data" => Chunks' = Chunks - 1 /\ Chunks # 0
    BY <1>3, OutputTaken
  <2>2. /\ UNCHANGED <<phase, cmds, child, pty, reader, wire>>
        /\ inbox'.shared = inbox.shared
        /\ hist'.pushed = hist.pushed /\ hist'.delivered = hist.delivered
    <3>1. inbox'.shared = inbox.shared
      BY <1>3, QueueTypes DEF OnTermEvents
    <3> QED
      BY <1>3, <1>t, <2>1, <3>1 DEF OnTermEvents, Fed
  <2>3. Pushes' = Pushes /\ Held' = Held
    BY <2>2 DEF Pushes, Framed, Held
  <2>4. CASE m = "data"
    <3>1. ed.kind # "none"
      BY <2>1, <2>4 DEF Before
    <3>2. /\ ed'.kind = ed.kind /\ ed'.emu = ed.emu
          /\ ed.emu => ed'.shown = ed.shown + 1
      BY <1>t, <2>1, <2>4 DEF Fed
    <3>3. Before'
      BY <2>2, <3>1, <3>2 DEF Before, OneOpening, Opening
    <3>4. Whole'
      BY <1>t, <1>n, <2>1, <2>2, <2>3, <2>4, <3>2 DEF Whole
    <3> QED
      BY <2>2, <3>3, <3>4
  <2>5. CASE m # "data"
    <3>1. /\ ed'.kind # "live" /\ ed'.shown = ed.shown
          /\ ed'.kind = "none" <=> ed.kind = "none"
      BY <1>t, <2>1, <2>5 DEF Fed
    <3>2. Before'
      BY <2>1, <2>2, <2>5, <3>1 DEF Before, OneOpening, Opening
    <3>3. Whole'
      BY <2>2, <2>3, <3>1 DEF Whole
    <3> QED
      BY <2>2, <3>2, <3>3
  <2> QED
    BY <2>4, <2>5
<1>4. CASE OpenPty \/ OpenFails
  <2>1. /\ cmds # <<>> /\ cmds' = Tail(cmds) /\ Head(cmds) = "open"
    BY <1>4 DEF OpenPty, OpenFails, Take
  <2>2. OneOpening' /\ Opening /\ ~Opening'
    BY <1>o, <2>1, TakenCommand
  <2>3. /\ ed.kind # "none" /\ child.printed = 0 /\ pty.out = 0 /\ reader = "none"
    BY <2>1, <2>2 DEF Before
  <2>4. /\ UNCHANGED <<phase, ed, events, wire, inbox, hist>> /\ reader' = "reading"
        /\ child'.printed = pty'.out /\ pty'.out \in Nat
    <3>1. UNCHANGED <<phase, ed, events, wire, inbox, hist>> /\ reader' = "reading"
      BY <1>4 DEF OpenPty, OpenFails
    <3>2. child'.printed = pty'.out /\ pty'.out \in Nat
      <4>1. CASE OpenPty
        BY <1>t, <2>3, <4>1 DEF OpenPty
      <4>2. CASE OpenFails
        BY <1>t, <4>2 DEF OpenFails
      <4> QED
        BY <1>4, <4>1, <4>2
    <3> QED
      BY <3>1, <3>2
  <2>5. Before'
    <3>1. ed'.kind # "none"
      BY <2>3, <2>4
    <3> QED
      BY <2>2, <3>1, Zenon DEF Before
  <2>6. Whole'
    <3>1. Held = 0 /\ Held' = 0
      BY <2>3, <2>4 DEF Held
    <3>2. Chunks' = Chunks /\ Pushes' = Pushes
      BY <1>s, <2>4
    <3>3. ed.kind = "live" => ed.emu /\ ed.shown + Chunks = 0
      BY <1>t, <1>n, <2>3, <3>1 DEF Whole
    <3>4. ed.kind = "live" =>
            ed'.emu /\ child'.printed = ed'.shown + Chunks' + Held' + pty'.out
      BY <2>4, <3>1, <3>2, <3>3
    <3>5. hist'.pushed = hist'.delivered + Pushes'
      BY <2>4, <3>2 DEF Whole
    <3> QED
      BY <2>4, <3>4, <3>5 DEF Whole
  <2> QED
    BY <2>4, <2>5, <2>6
<1>5. CASE TakeWrite \/ TakeKill
  <2>1. /\ cmds # <<>> /\ cmds' = Tail(cmds)
    BY <1>5 DEF TakeWrite, TakeKill, Take
  <2>2. OneOpening' /\ (Opening' => Opening)
    BY <1>o, <2>1, TakenCommand
  <2>3. /\ UNCHANGED <<phase, ed, pty, reader, events, wire, inbox, hist>>
        /\ child'.printed = child.printed
        /\ child.state = "none" => child'.state = "none"
    BY <1>5, <1>t DEF TakeWrite, TakeKill
  <2>4. ed.kind # "none"
    BY <2>1 DEF Before
  <2>5. Before'
    BY <2>2, <2>3, <2>4 DEF Before
  <2>6. Whole'
    BY <1>s, <2>3 DEF Whole, Held
  <2> QED
    BY <2>3, <2>5, <2>6
<1>6. CASE ActorWrites \/ ChildPrints \/ ChildExits
           \/ (\E answers \in BOOLEAN : ChildReads(answers))
  <2>1. /\ UNCHANGED <<phase, ed, cmds, reader, events, wire, inbox, hist>>
        /\ pty'.out = pty.out /\ child'.printed = child.printed
        /\ child.state = "none" => child'.state = "none"
    BY <1>6, <1>t DEF ActorWrites, ChildPrints, ChildExits, ChildReads
  <2>2. Before' /\ Whole'
    BY <1>s, <2>1 DEF Before, OneOpening, Opening, Whole, Held
  <2> QED
    BY <2>1, <2>2
<1>7. CASE ChildWrites
  <2>1. /\ child.state = "running"
        /\ UNCHANGED <<phase, ed, cmds, reader, events, wire, inbox, hist>>
        /\ pty'.out = pty.out + 1 /\ child'.printed = child.printed + 1
    BY <1>7, <1>t DEF ChildWrites
  <2>2. ed.kind # "none" /\ ~Opening
    BY <2>1 DEF Before
  <2>3. Before'
    BY <2>1, <2>2 DEF Before, OneOpening, Opening
  <2>4. Whole'
    <3>1. Held' = Held
      BY <2>1 DEF Held
    <3> QED
      BY <1>s, <1>t, <1>n, <2>1, <3>1 DEF Whole
  <2> QED
    BY <2>1, <2>3, <2>4
<1>8. CASE ReaderReads \/ ReaderEnds
  <2>1. /\ reader = "reading"
        /\ UNCHANGED <<phase, ed, cmds, child, events, wire, inbox, hist>>
        /\ \/ pty'.out = pty.out - 1 /\ reader' = "data"
           \/ pty' = pty /\ reader' = "exit"
    BY <1>8, <1>t DEF ReaderReads, ReaderEnds
  <2>2. ed.kind # "none" /\ ~Opening
    BY <2>1 DEF Before
  <2>3. Before'
    BY <1>s, <2>1, <2>2 DEF Before, OneOpening, Opening
  <2>4. Whole'
    <3>1. pty'.out + Held' = pty.out + Held /\ pty'.out \in Int /\ Held' \in Nat
      BY <1>t, <2>1 DEF Held
    <3> QED
      BY <1>s, <1>t, <1>n, <2>1, <3>1 DEF Whole
  <2> QED
    BY <2>1, <2>3, <2>4
<1>9. CASE ReaderSends
  <2>1. /\ reader \in {"data", "exit"} /\ events' = Append(events, reader)
        /\ reader' = IF reader = "data" THEN "reading" ELSE "done"
        /\ UNCHANGED <<phase, ed, cmds, child, pty, wire, inbox, hist>>
    BY <1>9 DEF ReaderSends
  <2>2. ed.kind # "none" /\ ~Opening
    BY <2>1 DEF Before
  <2>3. Chunks' + Held' = Chunks + Held /\ Chunks' \in Nat /\ Held' \in Nat
    <3>1. Copies("data", events') = Copies("data", events) + Held
      <4>1. events \in Frames
        BY QueueTypes
      <4> QED
        BY <2>1, <4>1, FrameCounts DEF Held
    <3>2. Held' = 0
      BY <2>1 DEF Held
    <3>3. Framed("data")' = Framed("data")
      BY <2>1, SameCounts
    <3>4. /\ Copies("data", events) \in Nat /\ Framed("data") \in Nat
          /\ Copies("data", inbox.group) \in Nat /\ Copies("data", inbox.events) \in Nat
      BY CountTypes
    <3> QED
      BY <1>n, <2>1, <3>1, <3>2, <3>3, <3>4, SMTT(30) DEF Chunks
  <2>4. Before'
    BY <2>1, <2>2 DEF Before, OneOpening, Opening
  <2>5. Whole'
    <3>1. Pushes' = Pushes
      BY <2>1, SameCounts
    <3>2. ed.kind = "live" =>
            ed'.emu /\ child'.printed = ed'.shown + Chunks' + Held' + pty'.out
      <4>1. ed.shown + Chunks' + Held' + pty.out = ed.shown + Chunks + Held + pty.out
        <5>1. ed.shown + Chunks' + Held' = ed.shown + (Chunks' + Held')
          BY <1>t, <2>3
        <5>2. ed.shown + Chunks + Held = ed.shown + (Chunks + Held)
          BY <1>t, <1>n
        <5>3. Chunks' + Held' = Chunks + Held
          BY <2>3
        <5> QED
          BY <5>1, <5>2, <5>3
      <4> QED
        BY <2>1, <4>1 DEF Whole
    <3>3. hist'.pushed = hist'.delivered + Pushes'
      BY <2>1, <3>1 DEF Whole
    <3> QED
      BY <2>1, <3>2, <3>3 DEF Whole
  <2> QED
    BY <2>1, <2>4, <2>5
<1>10. CASE Forward \/ Split \/ TermDemux \/ WriterSends \/ LinkReads
  <2>1. /\ Chunks' = Chunks /\ hist'.pushed = hist.pushed
        /\ hist'.delivered + Pushes' = hist.delivered + Pushes
    <3>1. CASE Forward \/ Split \/ TermDemux
      BY <3>1, LegMoves
    <3>2. CASE WriterSends \/ LinkReads
      <4>1. Chunks' = Chunks /\ Pushes' = Pushes
        BY <3>2, FrameMoves
      <4> QED
        BY <3>2, <4>1 DEF WriterSends, LinkReads
    <3> QED
      BY <1>10, <3>1, <3>2
  <2>2. UNCHANGED <<phase, ed, cmds, child, pty, reader>>
    BY <1>10 DEF Forward, Split, TermDemux, WriterSends, LinkReads
  <2>3. Before' /\ Whole'
    BY <2>1, <2>2 DEF Before, OneOpening, Opening, Whole, Held
  <2> QED
    BY <2>2, <2>3
<1>11. CASE PushOther
  <2>1. /\ UNCHANGED <<phase, ed, cmds, child, pty, reader, events, inbox>>
        /\ hist'.pushed = hist.pushed + 1 /\ hist'.delivered = hist.delivered
    BY <1>11, <1>t DEF PushOther
  <2>2. Chunks' = Chunks /\ Pushes' = Pushes + 1
    BY <1>11, OtherPushed
  <2>3. Before'
    BY <2>1, <2>2 DEF Before, OneOpening, Opening
  <2>4. Whole'
    <3>1. Held' = Held
      BY <2>1 DEF Held
    <3> QED
      BY <1>t, <1>n, <2>1, <2>2, <3>1 DEF Whole
  <2> QED
    BY <2>1, <2>3, <2>4
<1>12. ~SeeOutage /\ ~Reconnect /\ ~Resync /\ (\A handed \in BOOLEAN : ~Drop(handed))
  BY <1>t DEF SeeOutage, Reconnect, Resync, Drop
<1> QED
  BY <1>1, <1>2, <1>3, <1>4, <1>5, <1>6, <1>7, <1>8, <1>9, <1>10, <1>11, <1>12
  DEF Next, Actor, Child, Reader, Daemon, Link

\* Until the link drops, wherever the terminal runs and however full the queues
\* are: every chunk its child printed is shown, queued somewhere, in the thread's
\* hand or in the kernel, and every push is delivered or queued.
THEOREM NothingIsLostOnTheWay == Spec => []NothingLost
<1>1. Init => FlowInv
  <2> SUFFICES ASSUME Init PROVE FlowInv
    OBVIOUS
  <2>1. Chunks = 0 /\ Pushes = 0
    BY CopiesNone DEF Init, Quiet, Chunks, Pushes, Framed
  <2> QED
    BY <2>1 DEF Init, FlowInv, Before, OneOpening, Whole
<1>2. TypeOK /\ FlowInv /\ [Next]_vars => FlowInv'
  <2> SUFFICES ASSUME TypeOK, FlowInv, [Next]_vars, hist'.drops = 0
               PROVE  (phase = "up" /\ Before /\ Whole)'
    BY DEF FlowInv
  <2>1. CASE Next
    <3>1. hist.drops = 0
      BY <2>1, DropsRemembered
    <3> QED
      BY <2>1, <3>1, FlowStep DEF FlowInv
  <2>2. CASE UNCHANGED vars
    <3>1. UNCHANGED <<phase, ed, cmds, child, pty, reader, events, wire, inbox, hist>>
      BY <2>2 DEF vars
    <3>2. Chunks' = Chunks /\ Pushes' = Pushes
      BY <3>1, SameCounts
    <3> QED
      BY <3>1, <3>2 DEF FlowInv, Before, OneOpening, Opening, Whole, Held
  <2> QED
    BY <2>1, <2>2
<1>3. FlowInv => NothingLost
  BY DEF FlowInv, NothingLost
<1> QED
  BY <1>1, <1>2, <1>3, TerminalTypeCorrect, PTL DEF Spec

=============================================================================
