------------------------------ MODULE MqttTap ------------------------------
(***************************************************************************)
(* The MQTT publisher and its tap (bess-emulator/src/mqtt, tap.rs) beside  *)
(* the plant that feeds them.                                              *)
(*                                                                         *)
(* The plant ticks in its own task and hands the publisher two things: the *)
(* latest snapshot, which overwrites the one before, and a bounded channel *)
(* of event batches.  The publisher wakes every wall second and on every   *)
(* batch; each of its handlers reads the snapshot for itself, so the plant *)
(* may tick, and even start over under another scenario, between two of    *)
(* them.  Everything it sends passes the outbox, which a dropout of the    *)
(* scenario closes and a backfill burst replays.                           *)
(*                                                                         *)
(* One alarm word stands for the retained words, one point of one cadence  *)
(* class for the points, and every change of the word is the event of its  *)
(* tick.  Values read through a freeze, a unit error or a chatter are      *)
(* other values and change nothing here.                                   *)
(***************************************************************************)
EXTENDS Surfaces, SequencesExt

CONSTANTS
  Stories,       \* the scenarios loaded, in order: start, dropouts, bursts
  Period,        \* Class::period_s of the point
  STORE, BURST,  \* mqtt/tap.rs
  MaxRefusals, MaxConnections,  \* bounds
  Refusals       \* where the client's queue may be full: "live", "replay"

(* A burst of the schedule, and what the outbox may hold.                  *)
Bursts == [index : Nat, at : Nat]
Messages == [kind : {"event", "point", "word"}, value : Nat, run : Nat, born : Nat,
             retain : BOOLEAN]

ASSUME MqttAssumption ==
  /\ Stories # << >>
  /\ Stories \in Seq([start : Int, dropouts : SUBSET (Nat \X Nat), bursts : SUBSET Bursts])
  /\ Period \in Nat \ {0} /\ STORE \in Nat \ {0} /\ BURST \in Nat \ {0}
  /\ None \notin Int /\ None \notin Messages  \* no time, word or message either

VARIABLES
  (* the plant *)
  run,          \* which story is in force
  tick,         \* SiteState::tick
  word,         \* the alarm word
  count,        \* EventLog::count
  batches,      \* the publisher's receiver on SimHandle::events
  lagged,       \* the receiver lost a batch and was not told yet
  (* the publisher *)
  pc,           \* which handler comes next
  lastPub,      \* Publisher::last_pub_s of the class
  lastWord,     \* Publisher::last_event_value of the word
  connections, publishedOn,
  outbox,       \* the Outbox
  refusals,     \* how often the client's queue was full
  (* the broker *)
  delivered,    \* the events that reached it, by run and seq
  retained,     \* the retained word
  begun         \* the bursts begun since the story was loaded

feed == <<run, tick, word, count, batches, lagged>>
broker == <<delivered, retained>>
mqttVars == <<feed, pc, lastPub, lastWord, connections, publishedOn, outbox, refusals,
              broker, begun>>

story == Stories[run]
Now == story.start + tick

(* Taps::dropout and Taps::backfills_due at a tick.                        *)
Dropout == \E d \in story.dropouts : d[1] <= tick /\ tick < d[2]
BackfillsDue == {b \in story.bursts : b.at <= tick}

(* A message: `run' and `born' are the device time it is stamped with.     *)
Message(kind, value, retain) ==
  [kind |-> kind, value |-> value, run |-> run, born |-> tick, retain |-> retain]

-----------------------------------------------------------------------------
(* The plant's side.                                                       *)

MqttInit ==
  /\ run = 1 /\ tick = 0 /\ word = 0 /\ count = 0
  /\ batches = << >> /\ lagged = FALSE
  /\ pc = "idle" /\ lastPub = None /\ lastWord = None
  /\ connections = 0 /\ publishedOn = 0
  /\ outbox = [store |-> << >>, offline |-> FALSE, returned |-> FALSE,
               replayed |-> {}, replaying |-> FALSE, forgotten |-> FALSE]
  /\ refusals = 0
  /\ delivered = {} /\ retained = None
  /\ begun = {}

(* Task::tick: step, snapshot, then the tick's events, if any.             *)
Tick ==
  /\ tick < MaxTick
  /\ tick' = tick + 1
  /\ \/ UNCHANGED <<word, count, batches, lagged>>
     \/ /\ word' = 1 - word
        /\ count' = count + 1
        /\ LET sent == Append(batches, [Message("event", count', FALSE)
                                          EXCEPT !.born = tick'])
           IN  /\ batches' = IF Len(sent) > EVENT_BACKLOG THEN Tail(sent) ELSE sent
               /\ lagged' = (lagged \/ Len(sent) > EVENT_BACKLOG)
  /\ UNCHANGED <<run, pc, lastPub, lastWord, connections, publishedOn, outbox,
                 refusals, delivered, retained, begun>>

(* Command::LoadScenario: a fresh plant; the publisher is not told.        *)
LoadScenario ==
  /\ run < Len(Stories)
  /\ run' = run + 1
  /\ tick' = 0 /\ word' = 0 /\ count' = 0
  /\ begun' = {}
  /\ UNCHANGED <<batches, lagged, pc, lastPub, lastWord, connections, publishedOn,
                 outbox, refusals, delivered, retained>>

(* A broker restart without persistence, seen as a new connection.         *)
Reconnect ==
  /\ connections < MaxConnections
  /\ connections' = connections + 1
  /\ retained' = None
  /\ UNCHANGED <<feed, pc, lastPub, lastWord, publishedOn, outbox, refusals,
                 delivered, begun>>

-----------------------------------------------------------------------------
(* The outbox (mqtt/tap.rs).                                               *)

(* Outbox::observe: the edges of a dropout, as far as a wake sees them.    *)
Observe(box) ==
  IF Dropout = box.offline THEN box
  ELSE IF Dropout THEN [box EXCEPT !.offline = TRUE, !.store = << >>,
                                   !.forgotten = FALSE, !.replaying = FALSE]
  ELSE [box EXCEPT !.offline = FALSE, !.returned = TRUE]

(* Outbox::keep; of the count of what it forgot, whether it is zero.       *)
Keep(box, m) ==
  IF Len(box.store) = STORE
  THEN [box EXCEPT !.store = Append(Tail(@), m), !.forgotten = TRUE]
  ELSE [box EXCEPT !.store = Append(@, m)]

(* Mutants of Send: a stored message keeps its retain flag; a silent       *)
(* device publishes all the same.                                          *)
SendKeepsRetain(box, m, ok) ==
  LET seen == Observe(box)
  IN  IF seen.offline \/ seen.replaying
      THEN [box |-> Keep(seen, m), out |-> << >>, ok |-> TRUE]
      ELSE [box |-> seen, out |-> IF ok THEN <<m>> ELSE << >>, ok |-> ok]
SendKeepsACopy(box, m, ok) ==
  LET seen == Observe(box)
  IN  IF seen.offline \/ seen.replaying
      THEN [box |-> Keep(seen, m), out |-> << >>, ok |-> TRUE]
      ELSE [box |-> IF ok THEN Keep(seen, m) ELSE seen,
            out |-> IF ok THEN <<m>> ELSE << >>, ok |-> ok]

(* Outbox::send, when the client's queue has room (`ok') and when not:     *)
(* the outbox after it, what reached the wire, and the answer.             *)
Send(box, m, ok) ==
  LET seen == Observe(box)
  IN  IF seen.offline
      THEN [box |-> Keep(seen, [m EXCEPT !.retain = FALSE]), out |-> << >>, ok |-> TRUE]
      ELSE IF seen.replaying
      THEN [box |-> Keep(seen, m), out |-> << >>, ok |-> TRUE]
      ELSE [box |-> seen, out |-> IF ok THEN <<m>> ELSE << >>, ok |-> ok]

(* The kernel events among some messages, and the last retained word.      *)
EventsIn(messages) ==
  {<<m.run, m.value>> : m \in {m \in ToSet(messages) : m.kind = "event"}}
Newest(messages, before) ==
  LET words == {i \in DOMAIN messages : messages[i].retain}
  IN  IF words = {} THEN before ELSE messages[Max(words)]

(* What the broker makes of the messages of one step, in order.            *)
Receive(messages) ==
  /\ delivered' = delivered \cup EventsIn(messages)
  /\ retained' = Newest(messages, retained)

Refuse(where) ==
  where \in Refusals /\ refusals < MaxRefusals /\ refusals' = refusals + 1

(* The client takes a live message, or its queue is full.                  *)
Take(sent) ==
  /\ outbox' = sent.box
  /\ Receive(sent.out)
  /\ IF sent.ok THEN UNCHANGED refusals ELSE Refuse("live")

-----------------------------------------------------------------------------
(* The wake: backfill, cadence, words.                                     *)

(* Outbox::backfill.  The first burst not begun yet, in schedule order,    *)
(* starts a replay; each call hands out up to BURST messages.  A message   *)
(* the client refuses was already popped.                                  *)
Replay(box) ==
  \E n \in 0..BURST :
    LET store == box.store
        drained == Len(store) < BURST /\ n = Len(store)
    IN  /\ n <= Len(store)
        /\ Receive(SubSeq(store, 1, n))
        /\ IF n = BURST \/ drained
           THEN /\ outbox' = [box EXCEPT !.store = SubSeq(store, n + 1, Len(store)),
                                         !.replaying = ~drained]
                /\ UNCHANGED refusals
           ELSE /\ outbox' = [box EXCEPT !.store = SubSeq(store, n + 2, Len(store))]
                /\ Refuse("replay")

Backfill ==
  /\ pc = "idle" /\ pc' = "cadence"
  /\ LET seen == Observe(outbox)
         due == {b \in BackfillsDue : b.index \notin seen.replayed}
     IN  IF seen.offline \/ (~seen.replaying /\ due = {})
         THEN outbox' = seen /\ Receive(<< >>) /\ UNCHANGED <<refusals, begun>>
         ELSE IF seen.replaying THEN Replay(seen) /\ UNCHANGED begun
         ELSE LET burst == CHOOSE b \in due : \A c \in due : b.index <= c.index
              IN  /\ Replay([seen EXCEPT !.replayed = @ \cup {burst.index},
                                         !.replaying = TRUE])
                  /\ begun' = begun \cup {burst.index}
  /\ UNCHANGED <<feed, lastPub, lastWord, connections, publishedOn>>

(* Whether the class is due (mqtt::due).                                   *)
DueIsExclusive == lastPub = None \/ Now - lastPub > Period
Due == lastPub = None \/ Now - lastPub >= Period

PublishCadence ==
  /\ pc = "cadence" /\ pc' = "changed"
  /\ IF Due
     THEN /\ \E ok \in BOOLEAN : Take(Send(outbox, Message("point", 0, FALSE), ok))
          /\ lastPub' = Now
     ELSE Receive(<< >>) /\ UNCHANGED <<outbox, refusals, lastPub>>
  /\ UNCHANGED <<feed, lastWord, connections, publishedOn, begun>>

(* Mutants: a dropout that ended is not a reason to send the words again;  *)
(* a word is recorded whether or not it went out.                          *)
ForgetOnReconnectOnly(seen) == connections # publishedOn
RecordAnyway(sent, before) == word

(* What makes every word go out again.                                     *)
Forget(seen) == connections # publishedOn \/ seen.returned
(* What is remembered of a word once it was sent, or refused.              *)
Record(sent, before) == IF sent.ok THEN word ELSE before

PublishChanged ==
  /\ pc = "changed" /\ pc' = "idle"
  /\ LET seen == Observe(outbox)
         box == [seen EXCEPT !.returned = FALSE]
         known == IF Forget(seen) THEN None ELSE lastWord
     IN  IF known = word
         THEN /\ outbox' = box /\ lastWord' = known
              /\ Receive(<< >>) /\ UNCHANGED refusals
         ELSE \E ok \in BOOLEAN :
                LET sent == Send(box, Message("word", word, TRUE), ok)
                IN  Take(sent) /\ lastWord' = Record(sent, known)
  /\ publishedOn' = connections
  /\ UNCHANGED <<feed, lastPub, connections, begun>>

-----------------------------------------------------------------------------
(* The other wake: a batch of events, then the words.                      *)

PublishEvents ==
  /\ pc = "idle" /\ pc' = "changed"
  /\ ~lagged /\ batches # << >>
  /\ batches' = Tail(batches)
  /\ \E ok \in BOOLEAN : Take(Send(outbox, Head(batches), ok))
  /\ UNCHANGED <<run, tick, word, count, lagged, lastPub, lastWord, connections,
                 publishedOn, begun>>

(* RecvError::Lagged is only logged.                                       *)
FallBehind ==
  /\ pc = "idle" /\ lagged
  /\ lagged' = FALSE
  /\ UNCHANGED <<run, tick, word, count, batches, pc, lastPub, lastWord, connections,
                 publishedOn, outbox, refusals, delivered, retained, begun>>

-----------------------------------------------------------------------------
Publisher == Backfill \/ PublishCadence \/ PublishChanged
MqttNext == Tick \/ LoadScenario \/ Reconnect \/ Publisher \/ PublishEvents \/ FallBehind

MqttSpec == MqttInit /\ [][MqttNext]_mqttVars

(* The plant's clock and the publisher's loop run on; tokio's select takes *)
(* a ready branch at random, so a wake of either kind is never starved.    *)
MqttFairSpec ==
  /\ MqttSpec
  /\ WF_mqttVars(Tick)
  /\ WF_mqttVars(PublishCadence) /\ WF_mqttVars(PublishChanged)
  /\ SF_mqttVars(Backfill) /\ SF_mqttVars(PublishEvents) /\ SF_mqttVars(FallBehind)
=============================================================================
