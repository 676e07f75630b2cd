---------------------------- MODULE CarrierProofs ----------------------------
(***************************************************************************)
(* Theorems about Carrier, for any messages, carriers, edits and restarts. *)
(*                                                                         *)
(* The revision of a carrier counts how often it was written.  From that   *)
(* the invariant follows a header from the row to the message: what a      *)
(* message has claimed is at least its own request's revision, what it has *)
(* loaded at least what it has claimed, and a cache entry at least what it *)
(* is filed under.                                                         *)
(***************************************************************************)
EXTENDS Carrier, TLAPS

Carriers == [revision : Nat, writes : Nat, version : 0..MaxVersion,
             variant : Variant \union {"none"}]
Stages == {"none", "compiled", "inserting", "updating", "pending", "claimed", "loaded",
           "ready", "sent"}
Messages == [stage : Stages, version : 0..MaxVersion, variant : Variant \union {"none"},
             supplied : BOOLEAN, carrier : Row \union {"none"}, born : Nat, revision : Nat,
             settings : Nat, header : Headers]
Entries == [revision : Nat, header : Headers]

Typed ==
    /\ template \in 1..MaxVersion /\ settings \in 0..MaxSettings /\ restarts \in 0..MaxRestarts
    /\ carrier \in [Row -> Carriers] /\ message \in [Msg -> Messages]
    /\ cache \in [Row -> Entries]
    /\ broken \subseteq Row \X Nat /\ refused \subseteq Msg \X Nat

LEMMA TypeParts == TypeOK <=> Typed
BY DEF TypeOK, Typed, Carriers, Stages, Messages, Entries

Counted == \A c \in Row : carrier[c].revision = carrier[c].writes

\* How far a message has come, and what it may rely on by then.
Queued == {"pending", "claimed", "loaded", "ready", "sent"}
Sound(x, rows) ==
    /\ x.stage \in Queued => x.carrier \in Row /\ x.born <= rows[x.carrier].writes
    /\ x.stage \in {"claimed", "loaded"} => x.born <= x.revision
    /\ x.stage \in {"claimed", "loaded"} => x.revision <= rows[x.carrier].writes
    /\ x.stage = "loaded" => x.header.writes >= x.revision
    /\ x.stage \in {"ready", "sent"} => x.header.writes >= x.born /\ x.header.version \notin Bad
Followed == \A m \in Msg : Sound(message[m], carrier)
Kept == \A c \in Row : cache[c].header.version \notin Bad

IInv == Typed /\ Counted /\ Followed /\ EntryIsFresh /\ Kept

-----------------------------------------------------------------------------
LEMMA InitHolds == Init => IInv
<1> SUFFICES ASSUME Init PROVE IInv OBVIOUS
<1> USE DEF Init
<1>1. NoHeader \in Headers BY CarrierAssumption DEF NoHeader, Headers
<1>2. Nothing \in Entries /\ Empty \in Carriers /\ New \in Messages
  BY <1>1, CarrierAssumption DEF Nothing, Entries, Empty, Carriers, New, Messages, Stages
<1>3. Typed BY <1>2, CarrierAssumption DEF Typed
<1>4. Counted BY DEF Counted, Empty
<1>5. Followed BY DEF Followed, Sound, New, Queued
<1>6. EntryIsFresh /\ Kept
  BY CarrierAssumption DEF EntryIsFresh, Kept, Nothing, NoHeader
<1> QED BY <1>3, <1>4, <1>5, <1>6 DEF IInv

\* A step that changes one message only, to `new`.
LEMMA MessageStep ==
    ASSUME IInv, NEW m \in Msg, NEW new \in Messages, Sound(new, carrier),
           message' = [message EXCEPT ![m] = new],
           UNCHANGED <<template, settings, carrier, sender>>
    PROVE  IInv'
<1> USE DEF sender
<1>1. Typed' BY DEF IInv, Typed
<1>2. Counted' /\ EntryIsFresh' /\ Kept' BY DEF IInv, Counted, EntryIsFresh, Kept
<1>3. Followed'
  <2>1. \A n \in Msg : message'[n] = IF n = m THEN new ELSE message[n] BY DEF IInv, Typed
  <2>2. \A n \in Msg : Sound(message'[n], carrier') BY <2>1 DEF IInv, Followed
  <2> QED BY <2>2 DEF Followed
<1> QED BY <1>1, <1>2, <1>3 DEF IInv

LEMMA EditStep == IInv /\ (EditTemplate \/ EditSettings) => IInv'
<1> SUFFICES ASSUME IInv, EditTemplate \/ EditSettings PROVE IInv' OBVIOUS
<1> USE DEF sender
<1>1. UNCHANGED <<carrier, message, cache, broken, restarts, refused>>
  BY DEF EditTemplate, EditSettings
<1>2. template' \in 1..MaxVersion /\ settings' \in 0..MaxSettings
  BY CarrierAssumption DEF EditTemplate, EditSettings, IInv, Typed
<1>3. Typed' BY <1>1, <1>2 DEF IInv, Typed
<1>4. Counted' /\ Followed' /\ EntryIsFresh' /\ Kept'
  BY <1>1 DEF IInv, Counted, Followed, Sound, EntryIsFresh, Kept
<1> QED BY <1>3, <1>4 DEF IInv

LEMMA CompileStep ==
    ASSUME IInv, NEW m \in Msg, NEW v \in Variant, NEW supplied \in BOOLEAN,
           Compile(m, v, supplied)
    PROVE  IInv'
<1> DEFINE new == [message[m] EXCEPT !.stage = "compiled", !.version = template,
                                     !.variant = v, !.supplied = supplied]
<1>1. message' = [message EXCEPT ![m] = new] BY DEF Compile, IInv, Typed
<1>2. new \in Messages
  <2>1. message[m] \in Messages /\ template \in 0..MaxVersion
    BY CarrierAssumption DEF IInv, Typed
  <2>2. "compiled" \in Stages BY DEF Stages
  <2> QED BY <2>1, <2>2 DEF Messages
<1>3. Sound(new, carrier)
  <2>1. new.stage = "compiled" BY DEF IInv, Typed, Messages
  <2> QED BY <2>1 DEF Sound, Queued
<1> HIDE DEF new
<1> QED BY <1>1, <1>2, <1>3, MessageStep DEF Compile

LEMMA FindCarrierStep == ASSUME IInv, NEW m \in Msg, FindCarrier(m) PROVE IInv'
<1> DEFINE to == IF Written = {} THEN "inserting" ELSE "updating"
           new == [message[m] EXCEPT !.stage = to]
<1>1. message' = [message EXCEPT ![m] = new] BY DEF FindCarrier, IInv, Typed
<1>2. to \in {"inserting", "updating"} OBVIOUS
<1> HIDE DEF to
<1>3. new \in Messages /\ new.stage = to BY <1>2 DEF IInv, Typed, Messages, Stages
<1>4. Sound(new, carrier) BY <1>2, <1>3 DEF Sound, Queued
<1> HIDE DEF new
<1> QED BY <1>1, <1>3, <1>4, MessageStep DEF FindCarrier

LEMMA EnqueueStep == ASSUME IInv, NEW m \in Msg, NEW c \in Row, Enqueue(m, c) PROVE IInv'
<1> DEFINE row == [revision |-> NextRevision(c), writes |-> carrier[c].writes + 1,
                   version |-> message[m].version, variant |-> message[m].variant]
           new == [message[m] EXCEPT !.stage = "pending", !.carrier = c, !.born = row.writes]
<1>1. /\ carrier \in [Row -> Carriers] /\ message \in [Msg -> Messages]
      /\ carrier[c].revision = carrier[c].writes
  BY DEF IInv, Typed, Counted
<1>2. carrier' = [carrier EXCEPT ![c] = row] BY DEF Enqueue
<1>3. carrier'[c] = row BY <1>1, <1>2
<1>4. message' = [message EXCEPT ![m] = new] BY <1>1, <1>3 DEF Enqueue
<1>5. /\ row \in Carriers /\ row.revision = row.writes
      /\ row.writes = carrier[c].writes + 1 /\ carrier[c].writes \in Nat
  BY <1>1 DEF Carriers, NextRevision, Messages
<1>6. new \in Messages /\ new.stage = "pending" /\ new.carrier = c /\ new.born = row.writes
  <2> HIDE DEF row
  <2>1. row.writes \in Nat BY <1>5 DEF Carriers
  <2>2. "pending" \in Stages BY DEF Stages
  <2>3. message[m] \in Messages BY <1>1
  <2> QED BY <2>1, <2>2, <2>3 DEF Messages
<1> HIDE DEF row, new
<1>7. \A d \in Row : carrier'[d] = IF d = c THEN row ELSE carrier[d] BY <1>1, <1>2
<1>8. \A n \in Msg : message'[n] = IF n = m THEN new ELSE message[n] BY <1>1, <1>4
<1>9. UNCHANGED <<template, settings, cache, broken, restarts, refused>>
  BY DEF Enqueue, sender
<1>10. Typed' BY <1>1, <1>2, <1>4, <1>5, <1>6, <1>9 DEF IInv, Typed
<1>11. Counted' BY <1>5, <1>7 DEF IInv, Counted
<1>12. EntryIsFresh' /\ Kept' BY <1>9 DEF IInv, EntryIsFresh, Kept
<1>13. Followed'
  <2>1. ASSUME NEW n \in Msg PROVE Sound(message'[n], carrier')
    <3>1. CASE n = m
      <4>1. message'[n] = new BY <1>8, <3>1
      <4>2. new.born <= carrier'[new.carrier].writes
        <5>1. row.writes \in Nat BY <1>5 DEF Carriers
        <5> QED BY <1>3, <1>6, <5>1
      <4> QED BY <1>6, <4>1, <4>2 DEF Sound, Queued
    <3>2. CASE n # m
      <4>1. message'[n] = message[n] /\ Sound(message[n], carrier)
        BY <1>8, <3>2 DEF IInv, Followed
      <4>2. \A d \in Row : carrier[d].writes \in Nat /\ carrier'[d].writes \in Nat
                        /\ carrier[d].writes <= carrier'[d].writes
        BY <1>1, <1>5, <1>7 DEF Carriers
      <4>3. message[n].born \in Nat /\ message[n].revision \in Nat BY <1>1 DEF Messages
      <4>4. ASSUME message[n].stage \in Queued
            PROVE  message[n].carrier \in Row
                /\ message[n].born <= carrier'[message[n].carrier].writes
        BY <4>1, <4>2, <4>3, <4>4 DEF Sound
      <4>5. ASSUME message[n].stage \in {"claimed", "loaded"}
            PROVE  message[n].revision <= carrier'[message[n].carrier].writes
        BY <4>1, <4>2, <4>3, <4>5 DEF Sound, Queued
      <4> QED BY <4>1, <4>4, <4>5 DEF Sound
    <3> QED BY <3>1, <3>2
  <2> QED BY <2>1 DEF Followed
<1> QED BY <1>10, <1>11, <1>12, <1>13 DEF IInv

LEMMA ClaimStep == ASSUME IInv, NEW m \in Msg, Claim(m) PROVE IInv'
<1> DEFINE new == [message[m] EXCEPT !.stage = "claimed", !.revision = ClaimedRevision(m),
                                     !.settings = settings]
<1>1. /\ message[m] \in Messages /\ message[m].stage = "pending" /\ settings \in Nat
      /\ Sound(message[m], carrier)
  BY CarrierAssumption DEF Claim, At, IInv, Typed, Followed
<1>2. Own(m) \in Row /\ message[m].born <= carrier[Own(m)].writes
  BY <1>1 DEF Sound, Queued, Own
<1>3. ClaimedRevision(m) = carrier[Own(m)].writes /\ ClaimedRevision(m) \in Nat
  BY <1>2 DEF ClaimedRevision, IInv, Typed, Counted, Carriers
<1>4. message' = [message EXCEPT ![m] = new] BY DEF Claim, IInv, Typed
<1>5. new \in Messages
  <2>1. "claimed" \in Stages BY DEF Stages
  <2> QED BY <2>1, <1>1, <1>3 DEF Messages
<1>6. /\ new.stage = "claimed" /\ new.revision = carrier[Own(m)].writes
      /\ new.carrier = Own(m) /\ new.born = message[m].born
  BY <1>1, <1>3 DEF Messages, Own
<1> HIDE DEF new
<1>7. Sound(new, carrier) BY <1>2, <1>3, <1>6 DEF Sound, Queued
<1> QED BY <1>4, <1>5, <1>7, MessageStep DEF Claim

LEMMA HitStep == ASSUME IInv, NEW m \in Msg, Hit(m) PROVE IInv'
<1> DEFINE new == [message[m] EXCEPT !.stage = "ready", !.header = cache[Own(m)].header]
<1>1. /\ message[m] \in Messages /\ message[m].stage = "claimed"
      /\ Sound(message[m], carrier) /\ message[m].born \in Nat /\ message[m].revision \in Nat
  BY DEF Hit, At, IInv, Typed, Followed, Messages
<1>2. /\ Own(m) \in Row /\ message[m].born <= carrier[Own(m)].writes
      /\ message[m].born <= message[m].revision
  BY <1>1 DEF Sound, Queued, Own
<1>3. cache[Own(m)].header \in Headers /\ cache[Own(m)].header.writes \in Nat
  BY <1>2 DEF IInv, Typed, Entries, Headers
<1>4. /\ cache[Own(m)].header.writes >= message[m].born
      /\ cache[Own(m)].header.version \notin Bad
  BY <1>1, <1>2, <1>3 DEF Hit, Cached, IInv, EntryIsFresh, Kept
<1>5. message' = [message EXCEPT ![m] = new] BY DEF Hit, IInv, Typed
<1>6. new \in Messages
  <2>1. "ready" \in Stages BY DEF Stages
  <2> QED BY <2>1, <1>1, <1>3 DEF Messages
<1>7. /\ new.stage = "ready" /\ new.header = cache[Own(m)].header
      /\ new.carrier = Own(m) /\ new.born = message[m].born
  BY <1>1 DEF Messages, Own
<1> HIDE DEF new
<1>8. Sound(new, carrier) BY <1>2, <1>4, <1>7 DEF Sound, Queued
<1> QED BY <1>5, <1>6, <1>8, MessageStep DEF Hit

LEMMA LoadStep == ASSUME IInv, NEW m \in Msg, Load(m) PROVE IInv'
<1> DEFINE row == carrier[Own(m)]
           read == [writes |-> row.writes, version |-> row.version, variant |-> row.variant,
                    settings |-> settings]
           new == [message[m] EXCEPT !.stage = "loaded", !.header = read]
<1>1. /\ message[m] \in Messages /\ message[m].stage = "claimed" /\ settings \in Nat
      /\ Sound(message[m], carrier)
  BY CarrierAssumption DEF Load, At, IInv, Typed, Followed
<1>2. /\ Own(m) \in Row /\ message[m].born <= row.writes
      /\ message[m].born <= message[m].revision /\ message[m].revision <= row.writes
  BY <1>1 DEF Sound, Queued, Own
<1>3. row \in Carriers BY <1>2 DEF IInv, Typed
<1>4. read \in Headers /\ read.writes = row.writes BY <1>1, <1>3 DEF Carriers, Headers
<1>5. message' = [message EXCEPT ![m] = new] BY DEF Load, IInv, Typed
<1>6. new \in Messages
  <2> HIDE DEF read
  <2>1. "loaded" \in Stages BY DEF Stages
  <2> QED BY <2>1, <1>1, <1>4 DEF Messages
<1>7. /\ new.stage = "loaded" /\ new.header = read /\ new.revision = message[m].revision
      /\ new.carrier = Own(m) /\ new.born = message[m].born
  BY <1>1 DEF Messages, Own
<1> HIDE DEF new, read
<1>8. read.writes >= message[m].revision
  BY <1>1, <1>2, <1>3, <1>4 DEF Carriers, Messages
<1>9. Sound(new, carrier) BY <1>2, <1>7, <1>8 DEF Sound, Queued
<1> QED BY <1>5, <1>6, <1>9, MessageStep DEF Load

LEMMA SendStep == ASSUME IInv, NEW m \in Msg, Send(m) PROVE IInv'
<1> DEFINE new == [message[m] EXCEPT !.stage = "sent"]
<1>1. /\ message[m] \in Messages /\ message[m].stage = "ready" /\ Sound(message[m], carrier)
  BY DEF Send, At, IInv, Typed, Followed
<1>2. message' = [message EXCEPT ![m] = new] BY DEF Send, IInv, Typed
<1>3. new \in Messages
  <2>1. "sent" \in Stages BY DEF Stages
  <2> QED BY <2>1, <1>1 DEF Messages
<1>4. /\ new.stage = "sent" /\ new.header = message[m].header
      /\ new.carrier = message[m].carrier /\ new.born = message[m].born
  BY <1>1 DEF Messages
<1> HIDE DEF new
<1>5. Sound(new, carrier) BY <1>1, <1>4 DEF Sound, Queued
<1> QED BY <1>2, <1>3, <1>5, MessageStep DEF Send

\* What a step that also touches the cache has to show.
LEMMA CacheStep ==
    ASSUME IInv, NEW m \in Msg, NEW new \in Messages, Sound(new, carrier),
           message' = [message EXCEPT ![m] = new],
           NEW c \in Row, NEW entry \in Entries,
           entry.header.writes >= entry.revision, entry.header.version \notin Bad,
           cache' = [cache EXCEPT ![c] = entry],
           broken' \subseteq Row \X Nat, refused' \subseteq Msg \X Nat,
           UNCHANGED <<template, settings, carrier, restarts>>
    PROVE  IInv'
<1>1. Typed' BY DEF IInv, Typed
<1>2. Counted' BY DEF IInv, Counted
<1>3. \A d \in Row : cache'[d] = IF d = c THEN entry ELSE cache[d] BY DEF IInv, Typed
<1>4. EntryIsFresh' /\ Kept' BY <1>3 DEF IInv, EntryIsFresh, Kept
<1>5. Followed'
  <2>1. \A n \in Msg : message'[n] = IF n = m THEN new ELSE message[n] BY DEF IInv, Typed
  <2>2. \A n \in Msg : Sound(message'[n], carrier') BY <2>1 DEF IInv, Followed
  <2> QED BY <2>2 DEF Followed
<1> QED BY <1>1, <1>2, <1>4, <1>5 DEF IInv

LEMMA RefuseStep ==
    ASSUME IInv, NEW m \in Msg, message[m].stage \in {"claimed", "loaded"}, Refuse(m),
           broken' \subseteq Row \X Nat
    PROVE  IInv'
<1> DEFINE new == [message[m] EXCEPT !.stage = "pending"]
<1>1. message[m] \in Messages /\ Sound(message[m], carrier) BY DEF IInv, Typed, Followed
<1>2. Own(m) \in Row BY <1>1 DEF Sound, Queued, Own
<1>3. message' = [message EXCEPT ![m] = new] BY DEF Refuse, IInv, Typed
<1>4. new \in Messages
  <2>1. "pending" \in Stages BY DEF Stages
  <2> QED BY <2>1, <1>1 DEF Messages
<1>5. new.stage = "pending" /\ new.carrier = message[m].carrier /\ new.born = message[m].born
  BY <1>1 DEF Messages
<1> HIDE DEF new
<1>6. Sound(new, carrier) BY <1>1, <1>5 DEF Sound, Queued
<1>7. /\ Nothing \in Entries /\ Nothing.header.writes >= Nothing.revision
      /\ Nothing.header.version \notin Bad
  BY CarrierAssumption DEF Nothing, NoHeader, Entries, Headers
<1>8. refused' \subseteq Msg \X Nat BY <1>1 DEF Refuse, IInv, Typed, Messages
<1>9. cache' = [cache EXCEPT ![Own(m)] = Nothing] BY DEF Refuse
<1>10. UNCHANGED <<template, settings, carrier, restarts>> BY DEF Refuse
<1> QED BY <1>2, <1>3, <1>4, <1>6, <1>7, <1>8, <1>9, <1>10, CacheStep

LEMMA RecallStep == ASSUME IInv, NEW m \in Msg, Recall(m) PROVE IInv'
<1>1. broken' \subseteq Row \X Nat BY DEF Recall, IInv, Typed
<1> QED BY <1>1, RefuseStep DEF Recall, At

LEMMA RejectStep == ASSUME IInv, NEW m \in Msg, Reject(m) PROVE IInv'
<1>1. message[m] \in Messages /\ Sound(message[m], carrier) /\ message[m].stage = "loaded"
  BY DEF IInv, Typed, Followed, Reject, At
<1>2. Own(m) \in Row /\ message[m].revision \in Nat BY <1>1 DEF Sound, Queued, Own, Messages
<1>3. broken' \subseteq Row \X Nat BY <1>2 DEF Reject, IInv, Typed
<1> QED BY <1>1, <1>3, RefuseStep DEF Reject

LEMMA KeepStep == ASSUME IInv, NEW m \in Msg, Keep(m) PROVE IInv'
<1> DEFINE new == [message[m] EXCEPT !.stage = "ready"]
<1>1. /\ message[m] \in Messages /\ Sound(message[m], carrier) /\ message[m].stage = "loaded"
      /\ message[m].header.version \notin Bad
  BY DEF IInv, Typed, Followed, Keep, At
<1>2. /\ Own(m) \in Row /\ message[m].born <= message[m].revision
      /\ message[m].header.writes >= message[m].revision
      /\ message[m].born <= carrier[message[m].carrier].writes
  BY <1>1 DEF Sound, Queued, Own
<1>3. message[m].born \in Nat /\ message[m].revision \in Nat /\ message[m].header \in Headers
  BY <1>1 DEF Messages
<1>4. message[m].header.writes >= message[m].born BY <1>2, <1>3 DEF Headers
<1>5. message' = [message EXCEPT ![m] = new] BY DEF Keep, IInv, Typed
<1>6. new \in Messages
  <2>1. "ready" \in Stages BY DEF Stages
  <2> QED BY <2>1, <1>1 DEF Messages
<1>7. /\ new.stage = "ready" /\ new.carrier = message[m].carrier /\ new.born = message[m].born
      /\ new.header = message[m].header
  BY <1>1 DEF Messages
<1> HIDE DEF new
<1>8. Sound(new, carrier) BY <1>1, <1>2, <1>4, <1>7 DEF Sound, Queued, Own
<1>9. /\ Entry(m) \in Entries /\ Entry(m).header.writes >= Entry(m).revision
      /\ Entry(m).header.version \notin Bad
  BY <1>1, <1>2, <1>3 DEF Entry, Entries
<1>10. broken' \subseteq Row \X Nat /\ refused' \subseteq Msg \X Nat
  BY DEF Keep, IInv, Typed
<1>11. cache' = [cache EXCEPT ![Own(m)] = Entry(m)] BY DEF Keep
<1>12. UNCHANGED <<template, settings, carrier, restarts>> BY DEF Keep
<1> QED BY <1>2, <1>5, <1>6, <1>8, <1>9, <1>10, <1>11, <1>12, CacheStep

LEMMA RestartStep == IInv /\ Restart => IInv'
<1> SUFFICES ASSUME IInv, Restart PROVE IInv' OBVIOUS
<1> USE DEF Restart
<1>1. Nothing \in Entries BY CarrierAssumption DEF Nothing, NoHeader, Entries, Headers
<1>2. ASSUME NEW n \in Msg
      PROVE  message'[n] \in Messages /\ Sound(message'[n], carrier')
  <2>1. message[n] \in Messages /\ Sound(message[n], carrier) BY DEF IInv, Typed, Followed
  <2>2. CASE message[n].stage \in {"claimed", "loaded", "ready"}
    <3> DEFINE new == [message[n] EXCEPT !.stage = "pending"]
    <3>1. message'[n] = new BY <2>2
    <3>2. new \in Messages
      <4>1. "pending" \in Stages BY DEF Stages
      <4> QED BY <4>1, <2>1 DEF Messages
    <3>3. /\ new.stage = "pending" /\ new.carrier = message[n].carrier
          /\ new.born = message[n].born
      BY <2>1 DEF Messages
    <3> HIDE DEF new
    <3>4. Sound(new, carrier) BY <2>1, <2>2, <3>3 DEF Sound, Queued
    <3> QED BY <3>1, <3>2, <3>4
  <2>3. CASE message[n].stage \notin {"claimed", "loaded", "ready"}
    <3>1. message'[n] = message[n] BY <2>3
    <3> QED BY <2>1, <3>1
  <2> QED BY <2>2, <2>3
<1>3. message' \in [Msg -> Messages]
  <2>1. DOMAIN message' = Msg /\ message' = [n \in Msg |-> message'[n]] OBVIOUS
  <2> QED BY <2>1, <1>2
<1>4. restarts' \in 0..MaxRestarts BY CarrierAssumption DEF IInv, Typed
<1>5. cache' \in [Row -> Entries] /\ broken' \subseteq Row \X Nat BY <1>1
<1>6. Typed' BY <1>3, <1>4, <1>5 DEF IInv, Typed
<1>7. Followed' BY <1>2 DEF Followed
<1>8. EntryIsFresh' /\ Kept'
  BY CarrierAssumption DEF EntryIsFresh, Kept, Nothing, NoHeader
<1>9. Counted' BY DEF IInv, Counted
<1> QED BY <1>6, <1>7, <1>8, <1>9 DEF IInv

LEMMA NextStep == IInv /\ [Next]_vars => IInv'
<1> SUFFICES ASSUME IInv, [Next]_vars PROVE IInv' OBVIOUS
<1>1. CASE EditTemplate \/ EditSettings BY <1>1, EditStep
<1>2. CASE Restart BY <1>2, RestartStep
<1>3. ASSUME NEW m \in Msg,
             \/ \E v \in Variant, supplied \in BOOLEAN : Compile(m, v, supplied)
             \/ FindCarrier(m)
             \/ \E c \in Row : Enqueue(m, c)
      PROVE  IInv'
  BY <1>3, CompileStep, FindCarrierStep, EnqueueStep
<1>4. ASSUME NEW m \in Msg, Deliver(m) PROVE IInv'
  BY <1>4, ClaimStep, HitStep, RecallStep, LoadStep, KeepStep, RejectStep, SendStep DEF Deliver
<1>5. CASE UNCHANGED vars
  BY <1>5 DEF vars, sender, IInv, Typed, Counted, Followed, EntryIsFresh, Kept
<1> QED BY <1>1, <1>2, <1>3, <1>4, <1>5 DEF Next

THEOREM Invariant == Spec => []IInv
BY InitHolds, NextStep, PTL DEF Spec

-----------------------------------------------------------------------------
\* Every variable keeps its type (Carrier.tla).
THEOREM TypeCorrect == Spec => []TypeOK
<1>1. IInv => TypeOK BY TypeParts DEF IInv
<1> QED BY <1>1, Invariant, PTL

\* However the loads of several workers overlap with each other and with new requests,
\* no cache entry is older than the revision it is filed under (campaign/cache.go).
THEOREM EntriesFresh == Spec => []EntryIsFresh
<1>1. IInv => EntryIsFresh BY DEF IInv
<1> QED BY <1>1, Invariant, PTL

\* No message goes out with content older than its own request wrote (send.ts, cache.go).
THEOREM NoOlderContent == Spec => []NeverOlder
<1>1. IInv => NeverOlder BY DEF IInv, Followed, Sound, NeverOlder
<1> QED BY <1>1, Invariant, PTL

\* Content the sender refuses never goes out, out of the cache or loaded anew.
THEOREM RefusedStays == Spec => []BadIsNotSent
<1>1. IInv => BadIsNotSent BY DEF IInv, Followed, Sound, BadIsNotSent, At
<1> QED BY <1>1, Invariant, PTL
=============================================================================
