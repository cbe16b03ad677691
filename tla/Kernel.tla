------------------------------- MODULE Kernel -------------------------------
(***************************************************************************)
(* The deterministic kernel (crates/tscp-kernel: dispatch_event and        *)
(* ReplayEngine) and the command line tool that writes a log of events and *)
(* replays one (crates/tscp-cli).                                          *)
(*                                                                         *)
(* Hashes are injective.  The hash of a state is what was hashed into it:  *)
(* one link per accepted event, its content and the counter; the event's   *)
(* parent need not be in the link, since dispatch_event compares it with   *)
(* the hash the link is appended to.                                       *)
(*                                                                         *)
(* Callers keep the events they have built: one may reach an engine late,  *)
(* twice, at another engine, or never.  A rejected event changes nothing,  *)
(* so it is no step here.                                                  *)
(***************************************************************************)
EXTENDS Naturals, Sequences

CONSTANTS
  Engines,       \* instances of ReplayEngine
  Version,       \* [Engines -> ruleset version]
  Bodies,        \* event_id, payload_hash and logical_time of an event
  MaxLength      \* bound on the events of one engine

ASSUME KernelAssumption == MaxLength \in Nat

VARIABLES
  counter,       \* ReplayEngine.state.counter
  hash,          \* ReplayEngine.state_hash
  time,          \* ReplayEngine.context.logical_time
  receipts,      \* ReplayEngine.receipts
  built,         \* events callers have built
  file,          \* events.cbor
  mode,          \* fresh, live, saving, replaying, or how a replay has ended
  todo,          \* events a replay has still to apply
  origin         \* for a replay of an intact log: the receipts it came from

engineVars == <<counter, hash, time, receipts>>
vars == <<engineVars, built, file, mode, todo, origin>>

Links == [body : Bodies, counter : Nat]
StateHash == Seq(Links)
Events == [body : Bodies, parent : StateHash]
Kinds == {"ClaimCreated", "ClaimVerified"}
Versions == {Version[e] : e \in Engines}
Receipts == [parent : StateHash, event : Events, child : StateHash,
             version : Versions, kind : Kinds]
Modes == {"fresh", "live", "saving", "replaying", "replayed", "rejected", "unreadable"}

GENESIS_STATE == <<>>

Unreadable == [readable |-> FALSE, intact |-> FALSE, log |-> <<>>, from |-> <<>>]

EventsOf(rs) == [i \in DOMAIN rs |-> rs[i].event]

Init ==
  /\ counter = [e \in Engines |-> 0]
  /\ hash = [e \in Engines |-> GENESIS_STATE]
  /\ time = [e \in Engines |-> 0]
  /\ receipts = [e \in Engines |-> <<>>]
  /\ built = {}
  /\ file = Unreadable        \* no file yet
  /\ mode = [e \in Engines |-> "fresh"]
  /\ todo = [e \in Engines |-> <<>>]
  /\ origin = [e \in Engines |-> <<>>]
-----------------------------------------------------------------------------
\* Mutant of Child: the parent's hash is not hashed into the child's.
ChildUnchained(h, ev, n) == <<[body |-> ev.body, counter |-> n]>>

\* child_hash of dispatch_event.
Child(h, ev, n) == Append(h, [body |-> ev.body, counter |-> n])

Kind(n) == IF n % 2 = 1 THEN "ClaimCreated" ELSE "ClaimVerified"

\* The receipt of dispatch_event.
Receipt(e, ev) ==
  [parent |-> hash[e], event |-> ev,
   child |-> Child(hash[e], ev, counter[e] + 1),
   version |-> Version[e], kind |-> Kind(counter[e] + 1)]

\* Mutant of Apply: an event for the current or for the previous state.
ApplyLenient(e, ev) ==
  /\ \/ ev.parent = hash[e]
     \/ receipts[e] # <<>> /\ ev.parent = receipts[e][Len(receipts[e])].parent
  /\ counter' = [counter EXCEPT ![e] = @ + 1]
  /\ hash' = [hash EXCEPT ![e] = Receipt(e, ev).child]
  /\ time' = [time EXCEPT ![e] = @ + 1]
  /\ receipts' = [receipts EXCEPT ![e] = Append(@, Receipt(e, ev))]

\* Mutant of Apply: the state is replaced but its hash is not.
ApplyKeepsHash(e, ev) ==
  /\ ev.parent = hash[e]
  /\ counter' = [counter EXCEPT ![e] = @ + 1]
  /\ time' = [time EXCEPT ![e] = @ + 1]
  /\ receipts' = [receipts EXCEPT ![e] = Append(@, Receipt(e, ev))]
  /\ UNCHANGED hash

\* ReplayEngine::apply when dispatch_event accepts the event.
Apply(e, ev) ==
  /\ ev.parent = hash[e]
  /\ counter' = [counter EXCEPT ![e] = @ + 1]
  /\ hash' = [hash EXCEPT ![e] = Receipt(e, ev).child]
  /\ time' = [time EXCEPT ![e] = @ + 1]
  /\ receipts' = [receipts EXCEPT ![e] = Append(@, Receipt(e, ev))]
-----------------------------------------------------------------------------
\* A caller builds an event on the state it sees.
Build(e, b) ==
  /\ Len(receipts[e]) < MaxLength
  /\ mode[e] \in {"fresh", "live"}
  /\ built' = built \cup {[body |-> b, parent |-> hash[e]]}
  /\ UNCHANGED <<engineVars, file, mode, todo, origin>>

\* An event is handed to an engine.
Deliver(e, ev) ==
  /\ mode[e] \in {"fresh", "live"}
  /\ Len(receipts[e]) < MaxLength
  /\ Apply(e, ev)
  /\ mode' = [mode EXCEPT ![e] = "live"]
  /\ UNCHANGED <<built, file, todo, origin>>

\* The log of accepted events is written with fs::write: truncated first ...
SaveOpen(e) ==
  /\ mode[e] \in {"fresh", "live"}
  /\ mode' = [mode EXCEPT ![e] = "saving"]
  /\ file' = Unreadable
  /\ UNCHANGED <<engineVars, built, todo, origin>>

\* Mutant of SaveWrite: the oldest event is not in the log.
SaveWriteShort(e) ==
  /\ mode[e] = "saving"
  /\ mode' = [mode EXCEPT ![e] = "live"]
  /\ file' = [readable |-> TRUE, intact |-> TRUE,
              log |-> SubSeq(EventsOf(receipts[e]), 2, Len(receipts[e])), from |-> receipts[e]]
  /\ UNCHANGED <<engineVars, built, todo, origin>>

\* ... then filled.
SaveWrite(e) ==
  /\ mode[e] = "saving"
  /\ mode' = [mode EXCEPT ![e] = "live"]
  /\ file' = [readable |-> TRUE, intact |-> TRUE,
              log |-> EventsOf(receipts[e]), from |-> receipts[e]]
  /\ UNCHANGED <<engineVars, built, todo, origin>>

\* The file is edited: an event is lost, has other content, or two have
\* changed places.
Damage ==
  LET log == file.log IN
  /\ file.readable /\ file.intact
  /\ \E i \in DOMAIN log :
       \/ file' = [file EXCEPT !.intact = FALSE,
                     !.log = SubSeq(log, 1, i - 1) \o SubSeq(log, i + 1, Len(log))]
       \/ \E b \in Bodies \ {log[i].body} :
            file' = [file EXCEPT !.intact = FALSE, !.log[i].body = b]
       \/ \E j \in DOMAIN log : i < j /\
            file' = [file EXCEPT !.intact = FALSE, !.log[i] = log[j], !.log[j] = log[i]]
  /\ UNCHANGED <<engineVars, built, mode, todo, origin>>

\* replay: read the file and start a new engine.  A file that was not written
\* to its end is no CBOR.
ReplayOpen(e) ==
  /\ mode[e] = "fresh"
  /\ mode' = [mode EXCEPT ![e] = IF file.readable THEN "replaying" ELSE "unreadable"]
  /\ todo' = [todo EXCEPT ![e] = file.log]
  /\ origin' = [origin EXCEPT ![e] = IF file.intact THEN file.from ELSE <<>>]
  /\ UNCHANGED <<engineVars, built, file>>

\* One turn of the loop of ReplayEngine::replay.
ReplayApply(e) ==
  /\ mode[e] = "replaying" /\ todo[e] # <<>>
  /\ Apply(e, Head(todo[e]))
  /\ todo' = [todo EXCEPT ![e] = Tail(@)]
  /\ UNCHANGED <<built, file, mode, origin>>

\* The first error ends it, and the engine is dropped.
ReplayRejects(e) ==
  /\ mode[e] = "replaying" /\ todo[e] # <<>>
  /\ Head(todo[e]).parent # hash[e]
  /\ mode' = [mode EXCEPT ![e] = "rejected"]
  /\ UNCHANGED <<engineVars, built, file, todo, origin>>

ReplayDone(e) ==
  /\ mode[e] = "replaying" /\ todo[e] = <<>>
  /\ mode' = [mode EXCEPT ![e] = "replayed"]
  /\ UNCHANGED <<engineVars, built, file, todo, origin>>

\* The process ends or dies, and a new engine starts from nothing.
Restart(e) ==
  /\ mode[e] # "fresh"
  /\ counter' = [counter EXCEPT ![e] = 0]
  /\ hash' = [hash EXCEPT ![e] = GENESIS_STATE]
  /\ time' = [time EXCEPT ![e] = 0]
  /\ receipts' = [receipts EXCEPT ![e] = <<>>]
  /\ mode' = [mode EXCEPT ![e] = "fresh"]
  /\ todo' = [todo EXCEPT ![e] = <<>>]
  /\ origin' = [origin EXCEPT ![e] = <<>>]
  /\ UNCHANGED <<built, file>>

Replay(e) == ReplayOpen(e) \/ ReplayApply(e) \/ ReplayRejects(e) \/ ReplayDone(e)

Next ==
  \/ \E e \in Engines :
       \/ \E b \in Bodies : Build(e, b)
       \/ \E ev \in built : Deliver(e, ev)
       \/ SaveOpen(e) \/ SaveWrite(e) \/ Replay(e) \/ Restart(e)
  \/ Damage

Spec == Init /\ [][Next]_vars
-----------------------------------------------------------------------------
TypeOK ==
  /\ counter \in [Engines -> Nat]
  /\ hash \in [Engines -> StateHash]
  /\ time \in [Engines -> Nat]
  /\ receipts \in [Engines -> Seq(Receipts)]
  /\ built \subseteq Events
  /\ file \in [readable : BOOLEAN, intact : BOOLEAN, log : Seq(Events), from : Seq(Receipts)]
  /\ mode \in [Engines -> Modes]
  /\ todo \in [Engines -> Seq(Events)]
  /\ origin \in [Engines -> Seq(Receipts)]

\* Two receipts for the same transition, by kernels of whatever version.
SameTransition(r, s) == [r EXCEPT !.version = s.version] = s

\* The receipts of an engine form a chain from the genesis hash to its
\* current one, one per counted event.
ReceiptsChain ==
  \A e \in Engines :
    LET rs == receipts[e]
        n == Len(rs) IN
    /\ counter[e] = n /\ time[e] = n
    /\ hash[e] = IF n = 0 THEN GENESIS_STATE ELSE rs[n].child
    /\ \A i \in 1..n : rs[i].parent = IF i = 1 THEN GENESIS_STATE ELSE rs[i-1].child

\* However often and wherever an event is delivered, an engine accepts it at
\* most once.
NoEventTwice ==
  \A e \in Engines : \A i, j \in DOMAIN receipts[e] :
    receipts[e][i].event = receipts[e][j].event => i = j

\* A state hash commits to the history: where two engines show the same hash,
\* at whatever time each had it, they have made the same transitions up to
\* there.  A damaged log therefore never replays to the hash of another log.
HashCommitsHistory ==
  \A d, e \in Engines :
    \A i \in DOMAIN receipts[d], j \in DOMAIN receipts[e] :
      receipts[d][i].child = receipts[e][j].child =>
        i = j /\ \A k \in 1..i : SameTransition(receipts[d][k], receipts[e][k])

\* The replay of a log that nobody has damaged is never rejected, and in the
\* end has reproduced the receipts of the engine that has written it.
IntactLogReplays ==
  \A e \in Engines :
    origin[e] # <<>> =>
      /\ mode[e] # "rejected"
      /\ mode[e] = "replayed" =>
           /\ Len(receipts[e]) = Len(origin[e])
           /\ \A i \in DOMAIN origin[e] : SameTransition(receipts[e][i], origin[e][i])
=============================================================================
