--------------------------- MODULE AnchorContract ---------------------------
(***************************************************************************)
(* contracts/TSCPAnchor.sol: a set of anchored hashes, the accounts that   *)
(* may add to it, and the chain's log of what was added.  A call whose     *)
(* require fails reverts and changes nothing, so it is no step here.       *)
(***************************************************************************)
EXTENDS Naturals, Sequences

CONSTANTS Accounts, Owner, Hashes

VARIABLES
  anchored,      \* mapping(bytes32 => bool) anchored
  committers,    \* mapping(address => bool) authorizedCommitters
  events         \* the BatchAnchored events, in order

vars == <<anchored, committers, events>>

\* The constructor: the owner is not a committer.
Init == anchored = {} /\ committers = {} /\ events = <<>>

AuthorizeCommitter(sender, c) ==
  /\ sender = Owner
  /\ committers' = committers \cup {c}
  /\ UNCHANGED <<anchored, events>>

RevokeCommitter(sender, c) ==
  /\ sender = Owner
  /\ committers' = committers \ {c}
  /\ UNCHANGED <<anchored, events>>

\* The two requires of commit.
CanCommit(sender, h) == sender \in committers /\ h \notin anchored

Commit(sender, h) ==
  /\ CanCommit(sender, h)
  /\ anchored' = anchored \cup {h}
  /\ events' = Append(events, [hash |-> h, committer |-> sender])
  /\ UNCHANGED committers

Call(sender) ==
  \/ \E c \in Accounts : AuthorizeCommitter(sender, c) \/ RevokeCommitter(sender, c)
  \/ \E h \in Hashes : Commit(sender, h)

Next == \E sender \in Accounts : Call(sender)

Spec == Init /\ [][Next]_vars
-----------------------------------------------------------------------------
TypeOK ==
  /\ anchored \subseteq Hashes
  /\ committers \subseteq Accounts
  /\ events \in Seq([hash : Hashes, committer : Accounts])

\* The log and the mapping tell the same story, and no hash is anchored
\* twice: whoever reads the log later can trust the first event it finds.
LogMatchesState ==
  /\ anchored = {events[i].hash : i \in DOMAIN events}
  /\ \A i, j \in DOMAIN events : events[i].hash = events[j].hash => i = j

\* What was anchored stays anchored, the log only grows, and only an account
\* that is a committer at that moment makes it grow, with its own name.
AppendOnly ==
  [][/\ anchored \subseteq anchored'
     /\ events' # events =>
          \E e \in [hash : Hashes, committer : committers] : events' = Append(events, e)]_vars
=============================================================================
