------------------------------- MODULE LiveView -------------------------------
(***************************************************************************)
(* The live view of running Fixes: fixstate.Tracker, which every Fix tells *)
(* its state and its agent's output, the stream that handleEvents serves   *)
(* one console from it, and the console's own store of cards, which a poll *)
(* of the running Fixes feeds too.  Consoles share nothing but the         *)
(* tracker, and none holds it up; there is one.                            *)
(* A state is the number of transitions the Fix has made, a line of output *)
(* its number; a tail is counted in lines.                                 *)
(***************************************************************************)
EXTENDS Naturals, Sequences, FiniteSets

CONSTANTS
  Fixes,     \* Fixes of the daemon
  StateCap,  \* subBuffer
  OutCap,    \* outputSubBuffer
  TailCap,   \* tailBytes, in lines; also the console's maxTailChars
  MaxStates, \* bound of the model: transitions of a Fix before its end
  MaxLines   \* bound of the model: lines an agent prints

\* The capacities hold something; the bounds allow a change.
ASSUME LiveViewAssumption ==
  /\ IsFiniteSet(Fixes)
  /\ {StateCap, OutCap, TailCap, MaxStates, MaxLines} \subseteq Nat \ {0}

VARIABLES
  state,    \* state[f]: transitions f has made; 0 before it is queued
  over,     \* Fixes that have ended, which the tracker has forgotten
  printed,  \* printed[f]: lines its agent has printed
  hpc,      \* where handleEvents is
  unwritten, \* the frames of a snapshot it has still to write
  fixes,    \* its channel of transitions
  output,   \* its channel of output
  lost,     \* outputSub.lost
  card,     \* liveFixes: card[f], the console's card of f
  polling,  \* is a poll of /api/fixes/active under way?
  poll,     \* what it will answer: the running Fixes with their states
  ended,    \* history: Fixes that ended on this connection ...
  unseen,    \* history: ... and those with a transition dropped on it
  holes     \* history: Fixes with output dropped and no snapshot since

tracker == <<state, over, printed>>
stream == <<hpc, unwritten, fixes, output, lost>>
console == <<card, polling, poll>>
past == <<ended, unseen, holes>>
liveVars == <<tracker, stream, console, past>>

Lines == 1 .. MaxLines
Active == {f \in Fixes : state[f] > 0 /\ f \notin over}

Transition == [fix : Fixes, state : 0 .. MaxStates, terminal : BOOLEAN]
\* A chunk, or the whole tail: lines from .. to
Output == [fix : Fixes, from : Lines, to : Lines, snapshot : BOOLEAN]
Card == [shown : BOOLEAN, state : 0 .. MaxStates, ended : BOOLEAN, output : Seq(Lines)]
NoCard == [shown |-> FALSE, state |-> 0, ended |-> FALSE, output |-> <<>>]

LiveTypeOK ==
  /\ state \in [Fixes -> 0 .. MaxStates] /\ over \subseteq Fixes
  /\ printed \in [Fixes -> 0 .. MaxLines]
  /\ hpc \in {"off", "states", "writing states", "output", "tails", "writing tails", "live"}
  /\ unwritten \subseteq Transition \cup Output
  /\ fixes \in Seq(Transition) /\ Len(fixes) <= StateCap
  /\ output \in Seq(Output) /\ Len(output) <= OutCap
  /\ lost \in BOOLEAN
  /\ card \in [Fixes -> Card] /\ \A f \in Fixes : Len(card[f].output) <= TailCap
  /\ polling \in BOOLEAN /\ poll \in [Fixes -> 0 .. MaxStates]
  /\ {ended, unseen, holes} \subseteq SUBSET Fixes

LiveInit ==
  /\ state = [f \in Fixes |-> 0] /\ over = {} /\ printed = [f \in Fixes |-> 0]
  /\ hpc = "off" /\ unwritten = {} /\ fixes = <<>> /\ output = <<>> /\ lost = FALSE
  /\ card = [f \in Fixes |-> NoCard]
  /\ polling = FALSE /\ poll = [f \in Fixes |-> 0]
  /\ ended = {} /\ unseen = {} /\ holes = {}

-----------------------------------------------------------------------------
(* The tracker *)

Streaming == hpc # "off"

\* Mutant of Subscribed: Fixes.Subscribe comes after the snapshot.
SubscribedLate == hpc \notin {"off", "states"}

Subscribed == Streaming
Listening == hpc \in {"tails", "writing tails", "live"}

\* Set's send to a subscriber: never waited for
Notify(f, n, terminal) ==
  IF Subscribed /\ Len(fixes) < StateCap
  THEN /\ fixes' = Append(fixes, [fix |-> f, state |-> n, terminal |-> terminal])
       /\ UNCHANGED unseen
  ELSE /\ unseen' = IF Subscribed THEN unseen \cup {f} ELSE unseen
       /\ UNCHANGED fixes

\* Set
Enter(f) ==
  /\ f \notin over
  /\ state[f] < MaxStates
  /\ state' = [state EXCEPT ![f] = @ + 1]
  /\ Notify(f, state[f] + 1, FALSE)
  /\ UNCHANGED <<over, printed, hpc, unwritten, output, lost, console, ended, holes>>

\* Set, to a terminal state
EndFix(f) ==
  /\ f \in Active
  /\ over' = over \cup {f}
  /\ ended' = IF Streaming THEN ended \cup {f} ELSE ended
  /\ Notify(f, state[f], TRUE)
  /\ UNCHANGED <<state, printed, hpc, unwritten, output, lost, console, holes>>

\* The first line of the tail when there are n
TailStart(n) == IF n > TailCap THEN n - TailCap + 1 ELSE 1

Whole(f, n) == [fix |-> f, from |-> TailStart(n), to |-> n, snapshot |-> TRUE]

\* Mutant of Message: what follows a loss is a chunk like any other.
MessageChunk(f, n) == [fix |-> f, from |-> n, to |-> n, snapshot |-> FALSE]

Message(f, n) ==
  IF lost THEN Whole(f, n)
  ELSE [fix |-> f, from |-> n, to |-> n, snapshot |-> FALSE]

\* Append: the agent's next line, to the tail and to the subscriber
AppendLine(f) ==
  /\ f \in Active
  /\ printed[f] < MaxLines
  /\ LET n == printed[f] + 1 IN
       /\ printed' = [printed EXCEPT ![f] = n]
       /\ \/ /\ ~Listening
             /\ UNCHANGED <<output, lost, holes>>
          \/ /\ Listening /\ Len(output) < OutCap
             /\ output' = Append(output, Message(f, n))
             /\ lost' = FALSE
             /\ holes' = IF lost THEN holes \ {f} ELSE holes
          \/ /\ Listening /\ Len(output) = OutCap
             /\ lost' = TRUE
             /\ holes' = holes \cup {f}
             /\ UNCHANGED output
  /\ UNCHANGED <<state, over, hpc, unwritten, fixes, console, ended, unseen>>

-----------------------------------------------------------------------------
(* The console's store *)

\* Mutant of Cut: the text grows without bound.
CutNever(text) == text

Cut(text) == IF Len(text) > TailCap THEN SubSeq(text, Len(text) - TailCap + 1, Len(text))
             ELSE text

\* onState
Shown(t) ==
  card' = [card EXCEPT ![t.fix].shown = TRUE, ![t.fix].state = t.state,
                       ![t.fix].ended = @ \/ t.terminal]

\* onOutput; a card for a Fix whose state was missed shows none.
Text(o) == [i \in 1 .. o.to - o.from + 1 |-> o.from + i - 1]
Appended(o) ==
  card' = [card EXCEPT ![o.fix].shown = TRUE,
                       ![o.fix].output = Cut(IF o.snapshot THEN Text(o) ELSE @ \o Text(o))]

\* Mutant of Seeded: an ended card is opened again.
SeededEnded(f) ==
  IF poll[f] > 0 THEN [card[f] EXCEPT !.shown = TRUE, !.state = poll[f], !.ended = FALSE]
  ELSE card[f]

\* seed: a card for each running Fix, and its state unless the card has ended
Seeded(f) ==
  IF poll[f] > 0 /\ ~card[f].ended
  THEN [card[f] EXCEPT !.shown = TRUE, !.state = poll[f]] ELSE card[f]

Running(f) == IF f \in Active THEN state[f] ELSE 0

\* GET /api/fixes/active, every ten seconds and after events
PollAsk ==
  /\ ~polling
  /\ polling' = TRUE
  /\ poll' = [f \in Fixes |-> Running(f)]
  /\ UNCHANGED <<tracker, stream, card, past>>

PollAnswer ==
  /\ polling
  /\ card' = [f \in Fixes |-> Seeded(f)]
  /\ polling' = FALSE
  /\ poll' = [f \in Fixes |-> 0]
  /\ UNCHANGED <<tracker, stream, past>>

-----------------------------------------------------------------------------
(* The stream: handleEvents, as far as it is about Fixes *)

\* EventSource connects, and Fixes.Subscribe
OpenStream ==
  /\ hpc = "off"
  /\ hpc' = "states"
  /\ UNCHANGED <<tracker, unwritten, fixes, output, lost, console, past>>

\* Fixes.Active
SnapshotStates ==
  /\ hpc = "states"
  /\ hpc' = "writing states"
  /\ unwritten' = {[fix |-> f, state |-> state[f], terminal |-> FALSE] : f \in Active}
  /\ UNCHANGED <<tracker, fixes, output, lost, console, past>>

WriteState ==
  /\ hpc = "writing states"
  /\ \/ \E t \in unwritten :
          /\ Shown(t)
          /\ unwritten' = unwritten \ {t}
          /\ UNCHANGED hpc
     \/ /\ unwritten = {}
        /\ hpc' = "output"
        /\ UNCHANGED <<card, unwritten>>
  /\ UNCHANGED <<tracker, fixes, output, lost, polling, poll, past>>

SubscribeOutput ==
  /\ hpc = "output"
  /\ hpc' = "tails"
  /\ UNCHANGED <<tracker, unwritten, fixes, output, lost, console, past>>

\* Fixes.Tails
SnapshotTails ==
  /\ hpc = "tails"
  /\ hpc' = "writing tails"
  /\ unwritten' = {Whole(f, printed[f]) : f \in {g \in Active : printed[g] > 0}}
  /\ UNCHANGED <<tracker, fixes, output, lost, console, past>>

WriteTail ==
  /\ hpc = "writing tails"
  /\ \/ \E o \in unwritten :
          /\ Appended(o)
          /\ unwritten' = unwritten \ {o}
          /\ UNCHANGED hpc
     \/ /\ unwritten = {}
        /\ hpc' = "live"
        /\ UNCHANGED <<card, unwritten>>
  /\ UNCHANGED <<tracker, fixes, output, lost, polling, poll, past>>

\* The select: either channel, in any order
FollowState ==
  /\ hpc = "live" /\ fixes # <<>>
  /\ Shown(Head(fixes))
  /\ fixes' = Tail(fixes)
  /\ UNCHANGED <<tracker, hpc, unwritten, output, lost, polling, poll, past>>

FollowOutput ==
  /\ hpc = "live" /\ output # <<>>
  /\ Appended(Head(output))
  /\ output' = Tail(output)
  /\ UNCHANGED <<tracker, hpc, unwritten, fixes, lost, polling, poll, past>>

\* The subscriptions end with the handler; what is in the channels is lost.
StreamGone ==
  /\ hpc' = "off" /\ unwritten' = {} /\ fixes' = <<>> /\ output' = <<>> /\ lost' = FALSE
  /\ ended' = {} /\ unseen' = {} /\ holes' = {}

\* The connection breaks; the console keeps its cards and connects again.
CloseStream ==
  /\ Streaming
  /\ StreamGone
  /\ UNCHANGED <<tracker, console>>

\* The daemon stops in the middle of its Fixes and starts again with none.
Reboot ==
  /\ Active # {}
  /\ over' = over \cup Active
  /\ StreamGone
  /\ polling' = FALSE /\ poll' = [f \in Fixes |-> 0]
  /\ UNCHANGED <<state, printed, card>>

-----------------------------------------------------------------------------
LiveNext ==
  \/ \E f \in Fixes : Enter(f) \/ EndFix(f) \/ AppendLine(f)
  \/ PollAsk \/ PollAnswer
  \/ OpenStream \/ SnapshotStates \/ WriteState \/ SubscribeOutput \/ SnapshotTails
  \/ WriteTail \/ FollowState \/ FollowOutput \/ CloseStream \/ Reboot

LiveSpec == LiveInit /\ [][LiveNext]_liveVars

-----------------------------------------------------------------------------
(* Properties *)

\* A card that has ended stays so: no snapshot, poll or transition on its way from
\* before the end opens it again (seed, onState).
EndedStays == [][\A f \in Fixes : card[f].ended => card'[f].ended]_liveVars

\* A stream that has caught up has shown the end of every Fix that ended since it
\* began to listen, wherever it was between its snapshots - unless the channel was
\* full, which Set accepts.
EndIsSeen ==
  hpc = "live" /\ fixes = <<>> => \A f \in ended \ unseen : card[f].ended

\* What a live stream shows of a running Fix has no hole, or the tail that fills it is on
\* its way, whatever was printed between its steps and however often it fell behind - but
\* for a Fix that had lines dropped and no snapshot since.  Its next line brings one, unless
\* another Fix's snapshot has cleared the mark (outputSub.lost, the subscriber's and not the
\* Fix's): then nothing does.
Contiguous(text) == \A i \in 1 .. Len(text) - 1 : text[i + 1] <= text[i] + 1
TailIsComing(f) == \E i \in 1 .. Len(output) : output[i].fix = f /\ output[i].snapshot
HolesAreMarked ==
  hpc = "live" => \A f \in Active \ holes : Contiguous(card[f].output) \/ TailIsComing(f)

===============================================================================
