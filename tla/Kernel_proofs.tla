---------------------------- MODULE Kernel_proofs ----------------------------
(***************************************************************************)
(* Proofs about module Kernel, for all engines, versions and contents.     *)
(* A state hash is determined by the receipts that lead to it (LinksTo):   *)
(* that is the inductive part of every property proved here.               *)
(***************************************************************************)
EXTENDS Kernel, TLAPS, SequenceTheorems

\* The hash that n receipts lead to.
LinksTo(rs, n) == [k \in 1..n |-> [body |-> rs[k].event.body, counter |-> k]]

\* Every receipt continues the ones before it.
IsChain(rs) ==
  \A i \in 1..Len(rs) :
    /\ rs[i].event.parent = LinksTo(rs, i - 1)
    /\ rs[i].parent = LinksTo(rs, i - 1)
    /\ rs[i].child = LinksTo(rs, i)
    /\ rs[i].kind = Kind(i)

EngineInv(e) ==
  /\ IsChain(receipts[e])
  /\ counter[e] = Len(receipts[e]) /\ time[e] = Len(receipts[e])
  /\ hash[e] = LinksTo(receipts[e], Len(receipts[e]))

FileInv ==
  /\ IsChain(file.from)
  /\ file.intact => file.readable /\ file.log = EventsOf(file.from)

\* A replay of an intact log: what has been applied and what is still to come
\* are together the events of the receipts the log was made from.
OriginInv(e) ==
  /\ IsChain(origin[e])
  /\ mode[e] = "fresh" => receipts[e] = <<>>
  /\ origin[e] # <<>> =>
       /\ mode[e] \in {"replaying", "replayed"}
       /\ mode[e] = "replayed" => todo[e] = <<>>
       /\ Len(receipts[e]) + Len(todo[e]) = Len(origin[e])
       /\ \A i \in 1..Len(receipts[e]) : receipts[e][i].event = origin[e][i].event
       /\ \A i \in 1..Len(todo[e]) : todo[e][i] = origin[e][Len(receipts[e]) + i].event

Inv ==
  /\ TypeOK
  /\ FileInv
  /\ \A e \in Engines : EngineInv(e) /\ OriginInv(e)
-----------------------------------------------------------------------------
\* Hashes and chains

LEMMA LinksType ==
  ASSUME NEW rs \in Seq(Receipts), NEW n \in 0..Len(rs)
  PROVE  LinksTo(rs, n) \in StateHash /\ Len(LinksTo(rs, n)) = n
<1>1. \A k \in 1..n : [body |-> rs[k].event.body, counter |-> k] \in Links
  <2> SUFFICES ASSUME NEW k \in 1..n
               PROVE  [body |-> rs[k].event.body, counter |-> k] \in Links
    OBVIOUS
  <2>1. rs[k] \in Receipts
    OBVIOUS
  <2>2. rs[k].event \in Events
    BY <2>1 DEF Receipts
  <2> QED  BY <2>2 DEF Events, Links
<1>2. n \in Nat
  BY LenProperties
<1> QED  BY <1>1, <1>2 DEF LinksTo, StateHash

\* One more link.
LEMMA LinksAppend ==
  ASSUME NEW rs \in Seq(Receipts), NEW r \in Receipts
  PROVE  /\ \A n \in 0..Len(rs) : LinksTo(Append(rs, r), n) = LinksTo(rs, n)
         /\ LinksTo(Append(rs, r), Len(rs) + 1) =
              Append(LinksTo(rs, Len(rs)), [body |-> r.event.body, counter |-> Len(rs) + 1])
<1>0. Len(rs) \in Nat
  OBVIOUS
<1>1. \A k \in 1..Len(rs) : Append(rs, r)[k] = rs[k]
  OBVIOUS
<1>2. Append(rs, r)[Len(rs) + 1] = r
  OBVIOUS
<1>3. \A n \in 0..Len(rs) : LinksTo(Append(rs, r), n) = LinksTo(rs, n)
  BY <1>0, <1>1 DEF LinksTo
<1>4. LinksTo(Append(rs, r), Len(rs) + 1) =
        Append(LinksTo(rs, Len(rs)), [body |-> r.event.body, counter |-> Len(rs) + 1])
  <2> DEFINE old == LinksTo(rs, Len(rs))
             link == [body |-> r.event.body, counter |-> Len(rs) + 1]
             new == LinksTo(Append(rs, r), Len(rs) + 1)
  <2>1. old \in Seq(Links) /\ Len(old) = Len(rs)
    BY <1>0, LinksType DEF StateHash
  <2>2. Append(rs, r) \in Seq(Receipts) /\ Len(Append(rs, r)) = Len(rs) + 1
    OBVIOUS
  <2>3. new \in Seq(Links) /\ Len(new) = Len(rs) + 1
    <3> DEFINE longer == Append(rs, r)
    <3>1. longer \in Seq(Receipts) /\ Len(rs) + 1 \in 0..Len(longer)
      BY <1>0, <2>2
    <3> HIDE DEF longer
    <3>2. LinksTo(longer, Len(rs) + 1) \in Seq(Links)
          /\ Len(LinksTo(longer, Len(rs) + 1)) = Len(rs) + 1
      BY <3>1, LinksType DEF StateHash
    <3> QED  BY <3>2 DEF longer
  <2>4. link \in Links
    <3>1. r.event.body \in Bodies
      BY DEF Receipts, Events
    <3> QED  BY <1>0, <3>1 DEF Links
  <2>5. Append(old, link) \in Seq(Links) /\ Len(Append(old, link)) = Len(rs) + 1
    BY <2>1, <2>4
  <2>6. \A k \in 1..(Len(rs) + 1) : new[k] = Append(old, link)[k]
    <3> SUFFICES ASSUME NEW k \in 1..(Len(rs) + 1) PROVE new[k] = Append(old, link)[k]
      OBVIOUS
    <3>1. CASE k \in 1..Len(rs)
      <4>1. Append(old, link)[k] = old[k]
        BY <2>1, <2>4, <3>1
      <4>2. old[k] = [body |-> rs[k].event.body, counter |-> k]
        BY <3>1 DEF LinksTo
      <4>3. new[k] = [body |-> Append(rs, r)[k].event.body, counter |-> k]
        BY DEF LinksTo
      <4> QED  BY <1>1, <3>1, <4>1, <4>2, <4>3
    <3>2. CASE k = Len(rs) + 1
      <4>1. Append(old, link)[k] = link
        BY <2>1, <2>4, <3>2
      <4>2. new[k] = [body |-> Append(rs, r)[k].event.body, counter |-> k]
        BY DEF LinksTo
      <4> QED  BY <1>2, <3>2, <4>1, <4>2
    <3>3. k \in 1..Len(rs) \/ k = Len(rs) + 1
      BY <1>0
    <3> QED  BY <3>1, <3>2, <3>3, Zenon
  <2> HIDE DEF old, link, new
  <2>7. new = Append(old, link)
    BY <2>3, <2>5, <2>6, SeqEqual
  <2> QED  BY <2>7 DEF old, link, new
<1> QED  BY <1>3, <1>4

\* Histories with equal contents up to n lead to the same hash, and conversely.
LEMMA LinksAgree ==
  ASSUME NEW rs, NEW ss, NEW n \in Nat,
         \A k \in 1..n : rs[k].event.body = ss[k].event.body
  PROVE  LinksTo(rs, n) = LinksTo(ss, n)
<1>1. \A k \in 1..n : [body |-> rs[k].event.body, counter |-> k]
                      = [body |-> ss[k].event.body, counter |-> k]
  OBVIOUS
<1> QED  BY <1>1, Zenon DEF LinksTo

LEMMA LinksInjective ==
  ASSUME NEW rs \in Seq(Receipts), NEW ss \in Seq(Receipts),
         NEW i \in 0..Len(rs), NEW j \in 0..Len(ss),
         LinksTo(rs, i) = LinksTo(ss, j)
  PROVE  i = j /\ \A k \in 1..i : rs[k].event.body = ss[k].event.body
<1>1. i = j
  BY LinksType
<1>2. \A k \in 1..i : rs[k].event.body = ss[k].event.body
  <2> SUFFICES ASSUME NEW k \in 1..i PROVE rs[k].event.body = ss[k].event.body
    OBVIOUS
  <2>1. LinksTo(rs, i)[k] = [body |-> rs[k].event.body, counter |-> k]
    BY DEF LinksTo
  <2>2. LinksTo(ss, j)[k] = [body |-> ss[k].event.body, counter |-> k]
    BY <1>1 DEF LinksTo
  <2>3. [body |-> rs[k].event.body, counter |-> k].body = [body |-> ss[k].event.body, counter |-> k].body
    BY <2>1, <2>2
  <2> QED  BY <2>3
<1> QED  BY <1>1, <1>2

\* Chains with the same contents are the same transitions.
LEMMA ChainsAgree ==
  ASSUME NEW rs \in Seq(Receipts), NEW ss \in Seq(Receipts), IsChain(rs), IsChain(ss),
         NEW n \in Nat, n <= Len(rs), n <= Len(ss),
         \A k \in 1..n : rs[k].event.body = ss[k].event.body
  PROVE  \A k \in 1..n : SameTransition(rs[k], ss[k])
<1> SUFFICES ASSUME NEW k \in 1..n PROVE SameTransition(rs[k], ss[k])
  OBVIOUS
<1>1. k \in 1..Len(rs) /\ k \in 1..Len(ss) /\ rs[k] \in Receipts /\ ss[k] \in Receipts
  OBVIOUS
<1>2. LinksTo(rs, k - 1) = LinksTo(ss, k - 1) /\ LinksTo(rs, k) = LinksTo(ss, k)
  <2>1. k \in Nat /\ k - 1 \in Nat
    OBVIOUS
  <2>2. /\ \A m \in 1..k : rs[m].event.body = ss[m].event.body
        /\ \A m \in 1..(k - 1) : rs[m].event.body = ss[m].event.body
    OBVIOUS
  <2> QED  BY <2>1, <2>2, LinksAgree
<1>3. /\ rs[k].parent = ss[k].parent /\ rs[k].child = ss[k].child
      /\ rs[k].kind = ss[k].kind /\ rs[k].event.parent = ss[k].event.parent
  BY <1>1, <1>2 DEF IsChain
<1>4. rs[k].event = ss[k].event
  <2>1. rs[k].event \in Events /\ ss[k].event \in Events
    BY <1>1 DEF Receipts
  <2> QED  BY <1>3, <2>1 DEF Events
<1> QED  BY <1>1, <1>3, <1>4 DEF SameTransition, Receipts
-----------------------------------------------------------------------------
\* Applying an event

LEMMA ApplyKeeps ==
  ASSUME TypeOK, NEW e \in Engines, NEW ev \in Events, Apply(e, ev),
         \A d \in Engines : EngineInv(d)
  PROVE  /\ counter' \in [Engines -> Nat] /\ hash' \in [Engines -> StateHash]
         /\ time' \in [Engines -> Nat] /\ receipts' \in [Engines -> Seq(Receipts)]
         /\ \A d \in Engines : EngineInv(d)'
         /\ \A d \in Engines \ {e} : receipts'[d] = receipts[d]
         /\ \E r \in Receipts : r.event = ev /\ receipts'[e] = Append(receipts[e], r)
<1> DEFINE rs == receipts[e]
           n == Len(rs)
           r == Receipt(e, ev)
<1>1. /\ rs \in Seq(Receipts) /\ n \in Nat /\ hash[e] \in StateHash /\ counter[e] \in Nat
      /\ IsChain(rs) /\ counter[e] = n /\ time[e] = n /\ hash[e] = LinksTo(rs, n)
  BY DEF TypeOK, EngineInv
<1>2. ev.body \in Bodies /\ ev.parent = LinksTo(rs, n) /\ ev.parent \in StateHash
  BY <1>1 DEF Events, Apply
<1>3. r = [parent |-> hash[e], event |-> ev, child |-> Child(hash[e], ev, n + 1),
           version |-> Version[e], kind |-> Kind(n + 1)]
  BY <1>1 DEF Receipt
<1>4. Child(hash[e], ev, n + 1) \in StateHash
  <2>1. [body |-> ev.body, counter |-> n + 1] \in Links
    BY <1>1, <1>2 DEF Links
  <2> QED  BY <1>1, <2>1 DEF Child, StateHash
<1>5. r \in Receipts
  <2>1. Version[e] \in Versions
    BY DEF Versions
  <2>2. Kind(n + 1) \in Kinds
    BY DEF Kind, Kinds
  <2> QED  BY <1>1, <1>3, <1>4, <2>1, <2>2 DEF Receipts
<1>6. /\ r.parent = LinksTo(rs, n) /\ r.event = ev /\ r.kind = Kind(n + 1)
      /\ r.child = Append(LinksTo(rs, n), [body |-> ev.body, counter |-> n + 1])
  BY <1>1, <1>3 DEF Child
<1> HIDE DEF r
<1>7. /\ counter' = [counter EXCEPT ![e] = @ + 1] /\ time' = [time EXCEPT ![e] = @ + 1]
      /\ hash' = [hash EXCEPT ![e] = r.child]
      /\ receipts' = [receipts EXCEPT ![e] = Append(@, r)]
  BY DEF Apply, r
<1>8. r.child \in StateHash
  BY <1>5 DEF Receipts
<1>9. /\ counter' \in [Engines -> Nat] /\ hash' \in [Engines -> StateHash]
      /\ time' \in [Engines -> Nat] /\ receipts' \in [Engines -> Seq(Receipts)]
  BY <1>5, <1>7, <1>8 DEF TypeOK
<1>10. /\ receipts'[e] = Append(rs, r) /\ counter'[e] = n + 1 /\ time'[e] = n + 1
       /\ hash'[e] = r.child
  BY <1>1, <1>7 DEF TypeOK
<1>11. \A d \in Engines \ {e} :
         receipts'[d] = receipts[d] /\ counter'[d] = counter[d] /\ time'[d] = time[d]
         /\ hash'[d] = hash[d]
  BY <1>7 DEF TypeOK
<1>12. EngineInv(e)'
  <2> DEFINE new == Append(rs, r)
  <2>1. Len(new) = n + 1 /\ new[n + 1] = r /\ \A k \in 1..n : new[k] = rs[k]
    BY <1>1, <1>5
  <2>2. /\ \A k \in 0..n : LinksTo(new, k) = LinksTo(rs, k)
        /\ LinksTo(new, n + 1) = r.child
    BY <1>1, <1>5, <1>6, LinksAppend
  <2> HIDE DEF new
  <2>3. ASSUME NEW i \in 1..n
        PROVE  /\ new[i].event.parent = LinksTo(new, i - 1)
               /\ new[i].parent = LinksTo(new, i - 1)
               /\ new[i].child = LinksTo(new, i) /\ new[i].kind = Kind(i)
    <3>1. i - 1 \in 0..n /\ i \in 0..n
      BY <1>1
    <3> QED  BY <1>1, <2>1, <2>2, <3>1 DEF IsChain
  <2>4. /\ new[n + 1].event.parent = LinksTo(new, n)
        /\ new[n + 1].parent = LinksTo(new, n)
        /\ new[n + 1].child = LinksTo(new, n + 1) /\ new[n + 1].kind = Kind(n + 1)
    <3>1. n \in 0..n
      BY <1>1
    <3> QED  BY <1>2, <1>6, <2>1, <2>2, <3>1
  <2>5. IsChain(new)
    <3> SUFFICES ASSUME NEW i \in 1..(n + 1)
                 PROVE  /\ new[i].event.parent = LinksTo(new, i - 1)
                        /\ new[i].parent = LinksTo(new, i - 1)
                        /\ new[i].child = LinksTo(new, i) /\ new[i].kind = Kind(i)
      BY <2>1 DEF IsChain
    <3>1. i \in 1..n \/ (i = n + 1 /\ i - 1 = n)
      BY <1>1
    <3> QED  BY <2>3, <2>4, <3>1
  <2>6. receipts'[e] = new
    BY <1>10 DEF new
  <2> QED  BY <1>10, <2>1, <2>2, <2>5, <2>6 DEF EngineInv
<1>13. \A d \in Engines \ {e} : EngineInv(d)'
  BY <1>11 DEF EngineInv
<1>14. r.event = ev /\ receipts'[e] = Append(receipts[e], r)
  BY <1>6, <1>10
<1> QED  BY <1>5, <1>9, <1>11, <1>12, <1>13, <1>14
-----------------------------------------------------------------------------
\* Initial states and steps

LEMMA InitInv == Init => Inv
<1> SUFFICES ASSUME Init PROVE Inv
  OBVIOUS
<1>1. <<>> \in Seq(Receipts) /\ <<>> \in Seq(Events) /\ <<>> \in StateHash /\ Len(<<>>) = 0
  BY DEF StateHash
<1>2. TypeOK
  BY <1>1 DEF Init, TypeOK, GENESIS_STATE, Unreadable, Modes
<1>3. IsChain(<<>>) /\ LinksTo(<<>>, 0) = <<>>
  BY <1>1 DEF IsChain, LinksTo
<1>4. FileInv
  BY <1>3 DEF Init, FileInv, Unreadable
<1>5. \A e \in Engines : EngineInv(e) /\ OriginInv(e)
  BY <1>1, <1>3 DEF Init, EngineInv, OriginInv, GENESIS_STATE
<1> QED  BY <1>2, <1>4, <1>5 DEF Inv

\* A step that leaves the engines alone keeps their part of the invariant.
LEMMA EnginesKept ==
  ASSUME UNCHANGED engineVars, \A e \in Engines : EngineInv(e)
  PROVE  \A e \in Engines : EngineInv(e)'
BY DEF engineVars, EngineInv

\* What a step leaves alone of one engine.
SameEngine(d) ==
  /\ counter'[d] = counter[d] /\ hash'[d] = hash[d] /\ time'[d] = time[d]
  /\ receipts'[d] = receipts[d]

SameReplay(d) ==
  /\ receipts'[d] = receipts[d] /\ origin'[d] = origin[d]
  /\ mode'[d] = mode[d] /\ todo'[d] = todo[d]

LEMMA EngineKept ==
  ASSUME NEW d, EngineInv(d), SameEngine(d)
  PROVE  EngineInv(d)'
BY DEF EngineInv, SameEngine

LEMMA OriginKept ==
  ASSUME NEW d, OriginInv(d), SameReplay(d)
  PROVE  OriginInv(d)'
<1>1. IsChain(origin'[d]) /\ (mode'[d] = "fresh" => receipts'[d] = <<>>)
  BY DEF OriginInv, SameReplay
<1>2. ASSUME origin'[d] # <<>>
      PROVE  /\ mode'[d] \in {"replaying", "replayed"}
             /\ mode'[d] = "replayed" => todo'[d] = <<>>
             /\ Len(receipts'[d]) + Len(todo'[d]) = Len(origin'[d])
             /\ \A i \in 1..Len(receipts'[d]) : receipts'[d][i].event = origin'[d][i].event
             /\ \A i \in 1..Len(todo'[d]) :
                  todo'[d][i] = origin'[d][Len(receipts'[d]) + i].event
  BY <1>2 DEF OriginInv, SameReplay
<1> QED  BY <1>1, <1>2 DEF OriginInv

LEMMA EventsOfType ==
  ASSUME NEW rs \in Seq(Receipts)
  PROVE  /\ EventsOf(rs) \in Seq(Events) /\ Len(EventsOf(rs)) = Len(rs)
         /\ \A i \in 1..Len(rs) : EventsOf(rs)[i] = rs[i].event
<1>1. \A i \in 1..Len(rs) : rs[i].event \in Events
  <2> SUFFICES ASSUME NEW i \in 1..Len(rs) PROVE rs[i].event \in Events
    OBVIOUS
  <2>1. rs[i] \in Receipts
    OBVIOUS
  <2> QED  BY <2>1 DEF Receipts
<1>2. DOMAIN rs = 1..Len(rs) /\ Len(rs) \in Nat
  OBVIOUS
<1> QED  BY <1>1, <1>2 DEF EventsOf

LEMMA StepBuild ==
  ASSUME Inv, NEW e \in Engines, NEW b \in Bodies, Build(e, b)
  PROVE  Inv'
<1>1. TypeOK'
  <2>1. [body |-> b, parent |-> hash[e]] \in Events
    BY DEF Inv, TypeOK, Events
  <2> QED  BY <2>1 DEF Build, Inv, TypeOK, engineVars
<1>2. \A d \in Engines : EngineInv(d)'
  BY EnginesKept DEF Build, Inv
<1> QED  BY <1>1, <1>2 DEF Build, Inv, FileInv, OriginInv, engineVars

LEMMA StepDeliver ==
  ASSUME Inv, NEW e \in Engines, NEW ev \in built, Deliver(e, ev)
  PROVE  Inv'
<1>1. ev \in Events /\ Apply(e, ev) /\ mode[e] \in {"fresh", "live"}
  BY DEF Deliver, Inv, TypeOK
<1>2. /\ counter' \in [Engines -> Nat] /\ hash' \in [Engines -> StateHash]
      /\ time' \in [Engines -> Nat] /\ receipts' \in [Engines -> Seq(Receipts)]
      /\ \A d \in Engines : EngineInv(d)'
      /\ \A d \in Engines \ {e} : receipts'[d] = receipts[d]
  BY <1>1, ApplyKeeps DEF Inv
<1>3. TypeOK'
  BY <1>2 DEF Deliver, Inv, TypeOK, Modes
<1>4. FileInv'
  BY DEF Deliver, Inv, FileInv
<1>5. origin[e] = <<>>
  BY <1>1 DEF Inv, OriginInv
<1>6. OriginInv(e)'
  BY <1>5 DEF Deliver, Inv, OriginInv, TypeOK
<1>7. \A d \in Engines \ {e} : OriginInv(d)'
  <2>1. \A d \in Engines \ {e} : SameReplay(d)
    BY <1>2 DEF Deliver, Inv, TypeOK, SameReplay
  <2> QED  BY <2>1, OriginKept DEF Inv
<1> QED  BY <1>2, <1>3, <1>4, <1>6, <1>7 DEF Inv

LEMMA StepSave ==
  ASSUME Inv, NEW e \in Engines, SaveOpen(e) \/ SaveWrite(e)
  PROVE  Inv'
<1>1. \A d \in Engines : EngineInv(d)'
  BY EnginesKept DEF SaveOpen, SaveWrite, Inv
<1>2. receipts[e] \in Seq(Receipts) /\ IsChain(receipts[e])
  BY DEF Inv, TypeOK, EngineInv
<1>3. <<>> \in Seq(Receipts) /\ <<>> \in Seq(Events) /\ IsChain(<<>>)
  BY DEF IsChain
<1>4. TypeOK'
  <2>1. file' \in [readable : BOOLEAN, intact : BOOLEAN, log : Seq(Events), from : Seq(Receipts)]
    <3>1. CASE SaveOpen(e)
      BY <1>3, <3>1 DEF SaveOpen, Unreadable
    <3>2. CASE SaveWrite(e)
      <4>1. EventsOf(receipts[e]) \in Seq(Events)
        BY <1>2, EventsOfType
      <4> QED  BY <1>2, <3>2, <4>1 DEF SaveWrite
    <3> QED  BY <3>1, <3>2
  <2> QED  BY <2>1 DEF SaveOpen, SaveWrite, Inv, TypeOK, Modes, engineVars
<1>5. FileInv'
  BY <1>2, <1>3 DEF SaveOpen, SaveWrite, FileInv, Unreadable
<1>6. /\ mode[e] \notin {"replaying", "replayed"} /\ mode'[e] # "fresh"
      /\ UNCHANGED <<receipts, todo, origin>>
      /\ \A d \in Engines \ {e} : mode'[d] = mode[d]
  BY DEF SaveOpen, SaveWrite, Inv, TypeOK, engineVars
<1>7. \A d \in Engines : OriginInv(d)'
  <2>1. origin[e] = <<>>
    BY <1>6 DEF Inv, OriginInv
  <2> QED  BY <1>6, <2>1 DEF Inv, OriginInv
<1> QED  BY <1>1, <1>4, <1>5, <1>7 DEF Inv

LEMMA StepDamage ==
  ASSUME Inv, Damage
  PROVE  Inv'
<1> DEFINE log == file.log
<1>1. file \in [readable : BOOLEAN, intact : BOOLEAN, log : Seq(Events), from : Seq(Receipts)]
  BY DEF Inv, TypeOK
<1>2. log \in Seq(Events)
  BY <1>1
<1>3. /\ file'.from = file.from /\ file'.intact = FALSE
      /\ file' \in [readable : BOOLEAN, intact : BOOLEAN, log : Seq(Events), from : Seq(Receipts)]
  <2>1. PICK i \in DOMAIN log :
          \/ file' = [file EXCEPT !.intact = FALSE,
                       !.log = SubSeq(log, 1, i - 1) \o SubSeq(log, i + 1, Len(log))]
          \/ \E b \in Bodies \ {log[i].body} :
               file' = [file EXCEPT !.intact = FALSE, !.log[i].body = b]
          \/ \E j \in DOMAIN log : i < j /\
               file' = [file EXCEPT !.intact = FALSE, !.log[i] = log[j], !.log[j] = log[i]]
    BY DEF Damage
  <2>2. i \in 1..Len(log) /\ Len(log) \in Nat /\ log[i] \in Events
    BY <1>2
  <2>3. CASE file' = [file EXCEPT !.intact = FALSE,
                       !.log = SubSeq(log, 1, i - 1) \o SubSeq(log, i + 1, Len(log))]
    <3> DEFINE shorter == SubSeq(log, 1, i - 1) \o SubSeq(log, i + 1, Len(log))
    <3>1. SubSeq(log, 1, i - 1) \in Seq(Events)
      BY <1>2, <2>2, SubSeqProperties
    <3>2. SubSeq(log, i + 1, Len(log)) \in Seq(Events)
      BY <1>2, <2>2, SubSeqProperties
    <3>3. shorter \in Seq(Events)
      BY <3>1, <3>2, ConcatProperties
    <3> HIDE DEF shorter
    <3>4. file' = [file EXCEPT !.intact = FALSE, !.log = shorter]
      BY <2>3 DEF shorter
    <3> QED  BY <1>1, <3>3, <3>4
  <2>4. CASE \E b \in Bodies \ {log[i].body} :
               file' = [file EXCEPT !.intact = FALSE, !.log[i].body = b]
    <3>1. PICK b \in Bodies : file' = [file EXCEPT !.intact = FALSE, !.log[i].body = b]
      BY <2>4
    <3> DEFINE changed == [log EXCEPT ![i].body = b]
    <3>2. [log[i] EXCEPT !.body = b] \in Events
      BY <2>2 DEF Events
    <3>3. changed \in Seq(Events)
      BY <1>2, <2>2, <3>2, ExceptSeq
    <3> HIDE DEF changed
    <3>4. file' = [file EXCEPT !.intact = FALSE, !.log = changed]
      BY <1>1, <3>1 DEF changed
    <3> QED  BY <1>1, <3>3, <3>4
  <2>5. CASE \E j \in DOMAIN log : i < j /\
               file' = [file EXCEPT !.intact = FALSE, !.log[i] = log[j], !.log[j] = log[i]]
    <3>1. PICK j \in DOMAIN log :
            file' = [file EXCEPT !.intact = FALSE, !.log[i] = log[j], !.log[j] = log[i]]
      BY <2>5
    <3> DEFINE swapped == [[log EXCEPT ![i] = log[j]] EXCEPT ![j] = log[i]]
    <3>2. log[i] \in Events /\ log[j] \in Events /\ j \in 1..Len(log)
      BY <1>2, <2>2
    <3>3. [log EXCEPT ![i] = log[j]] \in Seq(Events) /\ Len([log EXCEPT ![i] = log[j]]) = Len(log)
      BY <1>2, <2>2, <3>2, ExceptSeq
    <3>4. swapped \in Seq(Events)
      BY <3>2, <3>3, ExceptSeq
    <3> HIDE DEF swapped
    <3>5. file' = [file EXCEPT !.intact = FALSE, !.log = swapped]
      BY <1>1, <3>1 DEF swapped
    <3> QED  BY <1>1, <3>4, <3>5
  <2> QED  BY <2>1, <2>3, <2>4, <2>5
<1>4. TypeOK'
  BY <1>3 DEF Damage, Inv, TypeOK, engineVars
<1>5. FileInv'
  BY <1>3 DEF Inv, FileInv
<1>6. \A d \in Engines : EngineInv(d)'
  BY EnginesKept DEF Damage, Inv
<1> QED  BY <1>4, <1>5, <1>6 DEF Damage, Inv, OriginInv, engineVars

LEMMA StepReplayOpen ==
  ASSUME Inv, NEW e \in Engines, ReplayOpen(e)
  PROVE  Inv'
<1>1. /\ file \in [readable : BOOLEAN, intact : BOOLEAN, log : Seq(Events), from : Seq(Receipts)]
      /\ FileInv /\ <<>> \in Seq(Receipts) /\ IsChain(<<>>)
  BY DEF Inv, TypeOK, IsChain
<1>2. TypeOK'
  BY <1>1 DEF ReplayOpen, Inv, TypeOK, Modes, engineVars
<1>3. FileInv'
  BY DEF ReplayOpen, Inv, FileInv
<1>4. \A d \in Engines : EngineInv(d)'
  BY EnginesKept DEF ReplayOpen, Inv
<1>5. /\ mode'[e] = IF file.readable THEN "replaying" ELSE "unreadable"
      /\ todo'[e] = file.log
      /\ origin'[e] = IF file.intact THEN file.from ELSE <<>>
      /\ receipts' = receipts /\ mode[e] = "fresh"
      /\ \A d \in Engines \ {e} : SameReplay(d)
  BY DEF ReplayOpen, Inv, TypeOK, engineVars, SameReplay
<1>6. OriginInv(e)'
  <2>1. receipts'[e] = <<>> /\ Len(receipts'[e]) = 0 /\ IsChain(origin'[e])
    <3>1. receipts'[e] = <<>>
      BY <1>5 DEF Inv, OriginInv
    <3> QED  BY <1>1, <1>5, <3>1 DEF FileInv
  <2>2. ASSUME origin'[e] # <<>>
        PROVE  /\ mode'[e] = "replaying"
               /\ Len(todo'[e]) = Len(origin'[e])
               /\ \A i \in 1..Len(todo'[e]) : todo'[e][i] = origin'[e][i].event
    <3>1. /\ file.intact /\ origin'[e] = file.from /\ file.readable
          /\ file.log = EventsOf(file.from) /\ file.from \in Seq(Receipts)
      BY <1>1, <1>5, <2>2 DEF FileInv
    <3> QED  BY <1>5, <3>1, EventsOfType
  <2>3. \A i \in 1..Len(todo'[e]) : 0 + i = i
    OBVIOUS
  <2>4. Len(todo'[e]) \in Nat
    BY <1>1, <1>5
  <2> QED  BY <1>5, <2>1, <2>2, <2>3, <2>4 DEF OriginInv
<1>7. \A d \in Engines \ {e} : OriginInv(d)'
  BY <1>5, OriginKept DEF Inv
<1> QED  BY <1>2, <1>3, <1>4, <1>6, <1>7 DEF Inv

\* One turn of the replay: the applied event moves from what is to come to
\* what has been applied.
LEMMA StepReplayApply ==
  ASSUME Inv, NEW e \in Engines, ReplayApply(e)
  PROVE  Inv'
<1> DEFINE rs == receipts[e]
           rest == todo[e]
           ev == Head(rest)
<1>1. /\ rs \in Seq(Receipts) /\ rest \in Seq(Events) /\ origin[e] \in Seq(Receipts)
      /\ rest # <<>> /\ mode[e] = "replaying" /\ Apply(e, ev)
      /\ todo' = [todo EXCEPT ![e] = Tail(rest)]
  BY DEF ReplayApply, Inv, TypeOK
<1>2. /\ ev \in Events /\ ev = rest[1] /\ Tail(rest) \in Seq(Events)
      /\ Len(Tail(rest)) = Len(rest) - 1 /\ Len(rest) \in Nat /\ Len(rest) > 0
      /\ \A i \in 1..Len(Tail(rest)) : Tail(rest)[i] = rest[i + 1]
  <2> HIDE DEF rest
  <2> QED  BY <1>1
<1>3. /\ counter' \in [Engines -> Nat] /\ hash' \in [Engines -> StateHash]
      /\ time' \in [Engines -> Nat] /\ receipts' \in [Engines -> Seq(Receipts)]
      /\ \A d \in Engines : EngineInv(d)'
      /\ \A d \in Engines \ {e} : receipts'[d] = receipts[d]
      /\ \E r \in Receipts : r.event = ev /\ receipts'[e] = Append(receipts[e], r)
  BY <1>1, <1>2, ApplyKeeps DEF Inv
<1>4. TypeOK'
  BY <1>1, <1>2, <1>3 DEF ReplayApply, Inv, TypeOK
<1>5. FileInv'
  BY DEF ReplayApply, Inv, FileInv
<1>6. UNCHANGED <<mode, origin>> /\ todo'[e] = Tail(rest)
      /\ \A d \in Engines \ {e} : todo'[d] = todo[d]
  BY <1>1 DEF ReplayApply, Inv, TypeOK
<1>7. OriginInv(e)'
  <2>1. PICK r \in Receipts : r.event = ev /\ receipts'[e] = Append(rs, r)
    BY <1>3
  <2>2. /\ Len(receipts'[e]) = Len(rs) + 1 /\ receipts'[e][Len(rs) + 1] = r
        /\ \A i \in 1..Len(rs) : receipts'[e][i] = rs[i]
        /\ Len(rs) \in Nat
    BY <1>1, <2>1
  <2>3. OriginInv(e) /\ origin'[e] = origin[e] /\ mode'[e] = "replaying"
    BY <1>1, <1>6 DEF Inv
  <2>4. ASSUME origin[e] # <<>>
        PROVE  /\ Len(receipts'[e]) + Len(todo'[e]) = Len(origin[e])
               /\ \A i \in 1..Len(receipts'[e]) : receipts'[e][i].event = origin[e][i].event
               /\ \A i \in 1..Len(todo'[e]) :
                    todo'[e][i] = origin[e][Len(receipts'[e]) + i].event
    <3>1. /\ Len(rs) + Len(rest) = Len(origin[e])
          /\ \A i \in 1..Len(rs) : rs[i].event = origin[e][i].event
          /\ \A i \in 1..Len(rest) : rest[i] = origin[e][Len(rs) + i].event
      BY <2>3, <2>4 DEF OriginInv
    <3>2. Len(receipts'[e]) + Len(todo'[e]) = Len(origin[e])
      <4>1. Len(todo'[e]) = Len(rest) - 1
        BY <1>2, <1>6
      <4>2. \A m, k, t \in Nat : m + k = t => (m + 1) + (k - 1) = t
        OBVIOUS
      <4>3. Len(origin[e]) \in Nat /\ Len(rest) \in Nat /\ Len(rs) \in Nat
        BY <1>1, <1>2, <2>2
      <4>4. Len(rs) + Len(rest) = Len(origin[e])
        BY <3>1
      <4>5. Len(receipts'[e]) = Len(rs) + 1
        BY <2>2
      <4> HIDE DEF rs, rest
      <4> QED  BY <4>1, <4>2, <4>3, <4>4, <4>5
    <3>3. \A i \in 1..Len(receipts'[e]) : receipts'[e][i].event = origin[e][i].event
      <4> SUFFICES ASSUME NEW i \in 1..Len(receipts'[e])
                   PROVE  receipts'[e][i].event = origin[e][i].event
        OBVIOUS
      <4>1. i \in 1..Len(rs) \/ i = Len(rs) + 1
        BY <2>2
      <4>2. CASE i \in 1..Len(rs)
        BY <2>2, <3>1, <4>2
      <4>3. CASE i = Len(rs) + 1
        <5>1. 1 \in 1..Len(rest)
          BY <1>2
        <5>2. ev = origin[e][Len(rs) + 1].event
          BY <1>2, <3>1, <5>1
        <5> QED  BY <2>1, <2>2, <4>3, <5>2
      <4> QED  BY <4>1, <4>2, <4>3
    <3>4. \A i \in 1..Len(todo'[e]) : todo'[e][i] = origin[e][Len(receipts'[e]) + i].event
      <4> SUFFICES ASSUME NEW i \in 1..Len(Tail(rest))
                   PROVE  Tail(rest)[i] = origin[e][(Len(rs) + 1) + i].event
        BY <1>6, <2>2
      <4>1. i + 1 \in 1..Len(rest) /\ Len(rs) + (i + 1) = (Len(rs) + 1) + i
        <5> HIDE DEF rs, rest
        <5>1. i \in 1..(Len(rest) - 1)
          BY <1>2
        <5> QED  BY <1>2, <2>2, <5>1
      <4> QED  BY <1>2, <3>1, <4>1
    <3> QED  BY <3>2, <3>3, <3>4
  <2> QED  BY <2>3, <2>4 DEF OriginInv
<1>8. \A d \in Engines \ {e} : OriginInv(d)'
  <2>1. \A d \in Engines \ {e} : SameReplay(d)
    BY <1>3, <1>6 DEF SameReplay
  <2> QED  BY <2>1, OriginKept DEF Inv
<1> QED  BY <1>3, <1>4, <1>5, <1>7, <1>8 DEF Inv

\* The replay of an intact log has always the right next event.
LEMMA NextIsAccepted ==
  ASSUME Inv, NEW e \in Engines, origin[e] # <<>>, todo[e] # <<>>
  PROVE  Head(todo[e]).parent = hash[e]
<1> DEFINE n == Len(receipts[e])
<1>1. /\ receipts[e] \in Seq(Receipts) /\ origin[e] \in Seq(Receipts)
      /\ todo[e] \in Seq(Events) /\ n \in Nat
  BY DEF Inv, TypeOK
<1>2. Len(todo[e]) > 0 /\ Len(todo[e]) \in Nat /\ Head(todo[e]) = todo[e][1]
  BY <1>1
<1>3. /\ n + Len(todo[e]) = Len(origin[e])
      /\ \A i \in 1..n : receipts[e][i].event = origin[e][i].event
      /\ \A i \in 1..Len(todo[e]) : todo[e][i] = origin[e][n + i].event
      /\ IsChain(origin[e])
  BY DEF Inv, OriginInv
<1>4. Head(todo[e]) = origin[e][n + 1].event
  <2>1. 1 \in 1..Len(todo[e])
    BY <1>2
  <2> QED  BY <1>2, <1>3, <2>1
<1>5. n + 1 \in 1..Len(origin[e]) /\ (n + 1) - 1 = n
  <2>1. \A m, k, t \in Nat : m + k = t /\ k > 0 => m + 1 \in 1..t /\ (m + 1) - 1 = m
    OBVIOUS
  <2>2. Len(origin[e]) \in Nat
    BY <1>1
  <2>3. n \in Nat /\ Len(todo[e]) \in Nat /\ Len(todo[e]) > 0
    BY <1>1, <1>2
  <2> HIDE DEF n
  <2>4. n + Len(todo[e]) = Len(origin[e])
    BY <1>3
  <2> QED  BY <2>1, <2>2, <2>3, <2>4
<1>6. origin[e][n + 1].event.parent = LinksTo(origin[e], n)
  BY <1>3, <1>5 DEF IsChain
<1>7. LinksTo(origin[e], n) = LinksTo(receipts[e], n)
  BY <1>1, <1>3, LinksAgree
<1>8. hash[e] = LinksTo(receipts[e], n)
  BY DEF Inv, EngineInv
<1> QED  BY <1>4, <1>6, <1>7, <1>8

LEMMA StepReplayEnds ==
  ASSUME Inv, NEW e \in Engines, ReplayRejects(e) \/ ReplayDone(e)
  PROVE  Inv'
<1>1. TypeOK'
  BY DEF ReplayRejects, ReplayDone, Inv, TypeOK, Modes, engineVars
<1>2. FileInv'
  BY DEF ReplayRejects, ReplayDone, Inv, FileInv
<1>3. \A d \in Engines : EngineInv(d)'
  BY EnginesKept DEF ReplayRejects, ReplayDone, Inv
<1>4. UNCHANGED <<receipts, todo, origin>>
      /\ \A d \in Engines \ {e} : mode'[d] = mode[d]
  BY DEF ReplayRejects, ReplayDone, Inv, TypeOK, engineVars
<1>5. OriginInv(e)'
  <2>1. CASE ReplayRejects(e)
    <3>1. origin[e] = <<>> /\ mode'[e] = "rejected"
      BY <2>1, NextIsAccepted DEF ReplayRejects, Inv, TypeOK
    <3> QED  BY <1>4, <3>1 DEF Inv, OriginInv
  <2>2. CASE ReplayDone(e)
    <3>1. mode'[e] = "replayed" /\ todo[e] = <<>>
      BY <2>2 DEF ReplayDone, Inv, TypeOK
    <3> QED  BY <1>4, <3>1 DEF Inv, OriginInv
  <2> QED  BY <2>1, <2>2
<1>6. \A d \in Engines \ {e} : OriginInv(d)'
  BY <1>4 DEF Inv, OriginInv
<1> QED  BY <1>1, <1>2, <1>3, <1>5, <1>6 DEF Inv

LEMMA StepRestart ==
  ASSUME Inv, NEW e \in Engines, Restart(e)
  PROVE  Inv'
<1>1. <<>> \in Seq(Receipts) /\ <<>> \in Seq(Events) /\ <<>> \in StateHash /\ Len(<<>>) = 0
  BY DEF StateHash
<1>2. IsChain(<<>>) /\ LinksTo(<<>>, 0) = <<>>
  BY <1>1 DEF IsChain, LinksTo
<1>3. TypeOK'
  BY <1>1 DEF Restart, Inv, TypeOK, GENESIS_STATE, Modes
<1>4. FileInv'
  BY DEF Restart, Inv, FileInv
<1>5. /\ counter'[e] = 0 /\ hash'[e] = <<>> /\ time'[e] = 0 /\ receipts'[e] = <<>>
      /\ origin'[e] = <<>>
  BY DEF Restart, Inv, TypeOK, GENESIS_STATE
<1>6. \A d \in Engines \ {e} : SameEngine(d) /\ SameReplay(d)
  BY DEF Restart, Inv, TypeOK, SameEngine, SameReplay
<1>7. EngineInv(e)' /\ OriginInv(e)'
  BY <1>1, <1>2, <1>5 DEF EngineInv, OriginInv
<1>8. \A d \in Engines \ {e} : EngineInv(d)' /\ OriginInv(d)'
  BY <1>6, EngineKept, OriginKept DEF Inv
<1> QED  BY <1>3, <1>4, <1>7, <1>8 DEF Inv

LEMMA StepInv == Inv /\ [Next]_vars => Inv'
<1> SUFFICES ASSUME Inv, [Next]_vars PROVE Inv'
  OBVIOUS
<1>1. CASE UNCHANGED vars
  BY <1>1 DEF vars, engineVars, Inv, TypeOK, FileInv, EngineInv, OriginInv
<1>2. ASSUME NEW e \in Engines,
             \/ \E b \in Bodies : Build(e, b)
             \/ \E ev \in built : Deliver(e, ev)
             \/ SaveOpen(e) \/ SaveWrite(e) \/ Replay(e) \/ Restart(e)
      PROVE  Inv'
  BY <1>2, StepBuild, StepDeliver, StepSave, StepReplayOpen, StepReplayApply,
     StepReplayEnds, StepRestart DEF Replay
<1>3. CASE Damage
  BY <1>3, StepDamage
<1> QED  BY <1>1, <1>2, <1>3 DEF Next

LEMMA Invariance == Spec => []Inv
BY InitInv, StepInv, PTL DEF Spec
-----------------------------------------------------------------------------
\* Types of engines, of logs and of the events in flight.
THEOREM TypeCorrect == Spec => []TypeOK
<1>1. Inv => TypeOK
  BY DEF Inv
<1> QED  BY <1>1, Invariance, PTL

\* The receipts of a ReplayEngine form a chain from the genesis hash to its
\* state hash, one for each unit of its counter.
THEOREM ReceiptsFormChain == Spec => []ReceiptsChain
<1>1. Inv => ReceiptsChain
  <2> SUFFICES ASSUME Inv, NEW e \in Engines
               PROVE  LET rs == receipts[e]
                          n == Len(rs) IN
                      /\ counter[e] = n /\ time[e] = n
                      /\ hash[e] = IF n = 0 THEN GENESIS_STATE ELSE rs[n].child
                      /\ \A i \in 1..n :
                           rs[i].parent = IF i = 1 THEN GENESIS_STATE ELSE rs[i-1].child
    BY DEF ReceiptsChain
  <2> DEFINE rs == receipts[e]
             n == Len(rs)
  <2>1. /\ IsChain(rs) /\ counter[e] = n /\ time[e] = n /\ hash[e] = LinksTo(rs, n)
        /\ n \in Nat
    BY DEF Inv, EngineInv, TypeOK
  <2>2. LinksTo(rs, 0) = GENESIS_STATE
    BY DEF LinksTo, GENESIS_STATE
  <2>3. \A i \in 1..n : rs[i].parent = LinksTo(rs, i - 1) /\ rs[i].child = LinksTo(rs, i)
    BY <2>1 DEF IsChain
  <2>4. hash[e] = IF n = 0 THEN GENESIS_STATE ELSE rs[n].child
    BY <2>1, <2>2, <2>3
  <2>5. ASSUME NEW i \in 1..n
        PROVE  rs[i].parent = IF i = 1 THEN GENESIS_STATE ELSE rs[i-1].child
    <3>1. i = 1 => i - 1 = 0
      OBVIOUS
    <3>2. i # 1 => i - 1 \in 1..n
      BY <2>1
    <3> QED  BY <2>2, <2>3, <3>1, <3>2
  <2> QED  BY <2>1, <2>4, <2>5
<1> QED  BY <1>1, Invariance, PTL

\* An engine accepts an event at most once, however often it is delivered:
\* its parent is a hash the engine has left for good.
THEOREM EventsApplyOnce == Spec => []NoEventTwice
<1>1. Inv => NoEventTwice
  <2> SUFFICES ASSUME Inv, NEW e \in Engines,
                      NEW i \in DOMAIN receipts[e], NEW j \in DOMAIN receipts[e],
                      receipts[e][i].event = receipts[e][j].event
               PROVE  i = j
    BY DEF NoEventTwice
  <2> DEFINE rs == receipts[e]
  <2>1. rs \in Seq(Receipts) /\ IsChain(rs) /\ i \in 1..Len(rs) /\ j \in 1..Len(rs)
    BY DEF Inv, TypeOK, EngineInv
  <2>2. LinksTo(rs, i - 1) = LinksTo(rs, j - 1)
    BY <2>1 DEF IsChain
  <2>3. i - 1 \in 0..Len(rs) /\ j - 1 \in 0..Len(rs)
    BY <2>1
  <2>4. i - 1 = j - 1
    BY <2>1, <2>2, <2>3, LinksInjective
  <2> QED  BY <2>1, <2>4
<1> QED  BY <1>1, Invariance, PTL

\* Engines that show the same state hash have made the same transitions.
THEOREM HashesCommit == Spec => []HashCommitsHistory
<1>1. Inv => HashCommitsHistory
  <2> SUFFICES ASSUME Inv, NEW d \in Engines, NEW e \in Engines,
                      NEW i \in DOMAIN receipts[d], NEW j \in DOMAIN receipts[e],
                      receipts[d][i].child = receipts[e][j].child
               PROVE  i = j /\ \A k \in 1..i : SameTransition(receipts[d][k], receipts[e][k])
    BY DEF HashCommitsHistory
  <2> DEFINE rs == receipts[d]
             ss == receipts[e]
  <2>1. /\ rs \in Seq(Receipts) /\ IsChain(rs) /\ ss \in Seq(Receipts) /\ IsChain(ss)
        /\ i \in 1..Len(rs) /\ j \in 1..Len(ss)
    BY DEF Inv, TypeOK, EngineInv
  <2>2. LinksTo(rs, i) = LinksTo(ss, j) /\ i \in 0..Len(rs) /\ j \in 0..Len(ss)
    BY <2>1 DEF IsChain
  <2>3. i = j /\ \A k \in 1..i : rs[k].event.body = ss[k].event.body
    BY <2>1, <2>2, LinksInjective
  <2>4. i \in Nat /\ i <= Len(rs) /\ i <= Len(ss)
    BY <2>1, <2>3
  <2> HIDE DEF rs, ss
  <2>5. \A k \in 1..i : SameTransition(rs[k], ss[k])
    BY <2>1, <2>3, <2>4, ChainsAgree
  <2> QED  BY <2>3, <2>5 DEF rs, ss
<1> QED  BY <1>1, Invariance, PTL

\* The replay of an intact log is never rejected, and reproduces the receipts
\* of the engine that has written it.
THEOREM IntactLogsReplay == Spec => []IntactLogReplays
<1>1. Inv => IntactLogReplays
  <2> SUFFICES ASSUME Inv, NEW e \in Engines, origin[e] # <<>>
               PROVE  /\ mode[e] # "rejected"
                      /\ mode[e] = "replayed" =>
                           /\ Len(receipts[e]) = Len(origin[e])
                           /\ \A i \in DOMAIN origin[e] :
                                SameTransition(receipts[e][i], origin[e][i])
    BY DEF IntactLogReplays
  <2> DEFINE rs == receipts[e]
             os == origin[e]
  <2>1. /\ rs \in Seq(Receipts) /\ IsChain(rs) /\ os \in Seq(Receipts) /\ IsChain(os)
        /\ todo[e] \in Seq(Events) /\ mode[e] \in {"replaying", "replayed"}
        /\ Len(rs) + Len(todo[e]) = Len(os)
        /\ \A i \in 1..Len(rs) : rs[i].event = os[i].event
    BY DEF Inv, TypeOK, EngineInv, OriginInv
  <2>2. ASSUME mode[e] = "replayed"
        PROVE  Len(rs) = Len(os) /\ \A i \in 1..Len(os) : SameTransition(rs[i], os[i])
    <3>1. todo[e] = <<>>
      BY <2>2 DEF Inv, OriginInv
    <3>2. Len(rs) = Len(os) /\ Len(os) \in Nat
      BY <2>1, <3>1
    <3>3. \A k \in 1..Len(os) : rs[k].event.body = os[k].event.body
      BY <2>1, <3>2
    <3>4. Len(os) <= Len(rs) /\ Len(os) <= Len(os)
      BY <3>2
    <3> HIDE DEF rs, os
    <3> QED  BY <2>1, <3>2, <3>3, <3>4, ChainsAgree
  <2>3. DOMAIN os = 1..Len(os)
    BY <2>1
  <2> QED  BY <2>1, <2>2, <2>3
<1> QED  BY <1>1, Invariance, PTL
=============================================================================
