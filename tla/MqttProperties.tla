--------------------------- MODULE MqttProperties ---------------------------
(***************************************************************************)
(* What a subscriber may rely on, with dropouts, replays, reconnects, a    *)
(* full client queue and a plant that starts over.                         *)
(***************************************************************************)
EXTENDS MqttTap

(* What the publisher remembers as published is what a late subscriber     *)
(* finds, or will find once the store in front of it has drained: while    *)
(* the device is online, on the connection the word was published on, the  *)
(* newest retained word on its way or at the broker has the remembered     *)
(* value.  The word is recorded when the outbox takes it, long before a    *)
(* replay hands it to the client.                                          *)
RecordedWordIsOut ==
  /\ lastWord # None
  /\ publishedOn = connections
  /\ ~outbox.offline /\ ~outbox.returned /\ ~outbox.forgotten
  => LET newest == Newest(outbox.store, retained)
     IN  newest # None /\ newest.value = lastWord

-----------------------------------------------------------------------------
(* Every kernel event publishes at most once, whatever is stored, replayed *)
(* and sent again after a reconnect: it waits in the channel, or in the    *)
(* store, or has reached the broker, and is nowhere twice; and neither     *)
(* queue outgrows its bound.                                               *)
Waiting == outbox.store \o batches
EachEventOnce ==
  LET events == {i \in DOMAIN Waiting : Waiting[i].kind = "event"}
      id(i) == <<Waiting[i].run, Waiting[i].value>>
  IN  /\ \A i, j \in events : id(i) = id(j) => i = j
      /\ EventsIn(Waiting) \cap delivered = {}
      /\ Len(outbox.store) <= STORE /\ Len(batches) <= EVENT_BACKLOG

(* A subscriber never sees the publisher step back. While a replay drains, *)
(* what reaches the broker comes out of the store, live messages wait      *)
(* their turn behind it; and no replay, however late, overwrites the       *)
(* broker's retained word with the one from before it.                     *)
Later(m, n) == m.run > n.run \/ (m.run = n.run /\ m.born >= n.born)
BrokerKeepsOrder ==
  [][/\ outbox.replaying =>
          /\ delivered' \subseteq delivered \cup EventsIn(outbox.store)
          /\ retained' \in {None, retained} \cup ToSet(outbox.store)
     /\ retained # None /\ retained' # None => Later(retained', retained)]_mqttVars

(* COMPATIBILITY.md:151: a cadence class publishes on that cadence in       *)
(* simulation time. After the cadence handler the last publication lies    *)
(* less than a period back, and never in the future.                       *)
PointsKeepCadence ==
  [][pc = "cadence" /\ pc' = "changed" =>
       lastPub' # None /\ lastPub' <= Now /\ Now - lastPub' < Period]_mqttVars

(* Nothing but a load silences a point: no wake leaves it overdue by a     *)
(* period, and when the clock stands behind the last publication, that     *)
(* date is one an earlier plant had reached, so that the silence ends      *)
(* once the plant in force gets there.                                     *)
Dates(i) == Stories[i].start..(Stories[i].start + MaxTick)
OnlyALoadSilences ==
  [][pc = "cadence" /\ pc' = "changed" =>
       /\ lastPub' # None /\ Now - lastPub' < Period
       /\ lastPub' > Now => \E i \in 1..(run - 1) : lastPub' \in Dates(i)]_mqttVars

-----------------------------------------------------------------------------
(* A subscriber arriving late gets the current word from the broker: once  *)
(* the plant stands still, the retained word is the plant's for good.      *)
RetainedCatchesUp == <>[](retained # None /\ retained.value = word)

(* A burst of the story in force whose instant has passed replays the      *)
(* store.                                                                  *)
EveryBurstReplays ==
  <>[](\A b \in BackfillsDue : b.index \in begun)
=============================================================================
