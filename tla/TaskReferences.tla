---------------------------- MODULE TaskReferences ----------------------------
(***************************************************************************)
(* What a task refers to: tracker entities, linked through tracker-bridge  *)
(* over Redis, and one document that it has acknowledged.  Linking,        *)
(* unlinking and the check for stale documents await requests to a store;  *)
(* they interleave, and linking and the check read the task before they    *)
(* await and write it afterwards.                                          *)
(***************************************************************************)
EXTENDS Naturals, Sequences, FiniteSets

CONSTANTS
  Clients, Entities,
  MaxOps,       \* bound on the operations that begin
  MaxVersion    \* bound on the versions and the resolutions of documents

VARIABLES
  links,     \* link:<id>, the stored links
  index,     \* links-by-local of the task, links-by-remote of each entity
  refs,      \* external_refs of the task
  resolver,  \* resolver_refs of the task: acks, docs and stale status
  doc,       \* the version of the document at the resolver; 0 is missing
  op,        \* per client: the operation in flight
  born,      \* the entity of each link ever made; its index is the link's id
  begun,     \* how many operations have begun
  settled    \* history: what was done without meeting another operation

storing == <<links, index>>
vars == <<storing, refs, resolver, doc, op, born, begun, settled>>

Local == "links-by-local"
Ids == DOMAIN born

Idle == [kind |-> "idle", at |-> "start", entity |-> Local, link |-> 0, seen |-> {}, todo |-> {},
         refs |-> {}, resolver |-> [acks |-> <<>>, docs |-> 0, stale |-> "unknown"],
         version |-> 0, alone |-> TRUE]

Linking(c)  == op[c].kind \in {"link", "unlink"}
Checking(c) == op[c].kind = "check"

(* An operation begins; one that meets another is not alone, nor is that.  *)
Begin(c, o) ==
  LET Same(d) == d # c /\ (IF o.kind = "check" THEN Checking(d) ELSE Linking(d)) IN
  /\ op[c] = Idle /\ begun < MaxOps /\ begun' = begun + 1
  /\ op' = [d \in Clients |->
              IF d = c THEN [o EXCEPT !.alone = ~\E x \in Clients : Same(x)]
              ELSE IF Same(d) THEN [op[d] EXCEPT !.alone = FALSE] ELSE op[d]]

Finish(c) == op' = [op EXCEPT ![c] = Idle]
At(c, at) == op' = [op EXCEPT ![c].at = at]

Settled(what, of) == <<what, of>> \in settled
Forget(S) == settled \ S

-----------------------------------------------------------------------------
(* linkTracker: the task is read, then the link is stored and indexed.     *)
LinkTracker(c, e) ==
  /\ Begin(c, [Idle EXCEPT !.kind = "link", !.at = "set", !.entity = e,
                           !.link = Len(born) + 1, !.refs = refs])
  /\ born' = Append(born, e)
  /\ settled' = Forget({<<"unlinked", e>>})
  /\ UNCHANGED <<storing, refs, resolver, doc>>

SetEntityLink(c) ==
  /\ op[c].at = "set" /\ At(c, "readLocal")
  /\ links' = links \union {op[c].link}
  /\ UNCHANGED <<index, refs, resolver, doc, born, begun, settled>>

(* unlink: every link of the task to the entity, one after the other.      *)
UnlinkTracker(c, e) ==
  /\ Begin(c, [Idle EXCEPT !.kind = "unlink", !.at = "list", !.entity = e])
  /\ settled' = Forget({<<"link", l>> : l \in {i \in Ids : born[i] = e}})
  /\ UNCHANGED <<storing, refs, resolver, doc, born>>

ListLinks(c) ==
  /\ op[c].at = "list"
  /\ op' = [op EXCEPT ![c].at = "next",
                      ![c].todo = {l \in index[Local] : born[l] = op[c].entity}]
  /\ UNCHANGED <<storing, refs, resolver, doc, born, begun, settled>>

(* deleteEntityLink leaves the indexes alone if the link is gone.          *)
FindLink(c) ==
  /\ op[c].at = "next"
  /\ \E l \in op[c].todo :
       op' = [op EXCEPT ![c].todo = @ \ {l}, ![c].link = l,
                        ![c].at = IF l \in links THEN "readLocal" ELSE "last"]
  /\ UNCHANGED <<storing, refs, resolver, doc, born, begun, settled>>

DeleteLink(c) ==
  /\ op[c].kind = "unlink" /\ op[c].at = "last" /\ At(c, "next")
  /\ links' = links \ {op[c].link}
  /\ UNCHANGED <<index, refs, resolver, doc, born, begun, settled>>

Unlinked(c) ==
  /\ op[c].at = "next" /\ op[c].todo = {} /\ Finish(c)
  /\ settled' = IF op[c].alone THEN settled \union {<<"unlinked", op[c].entity>>} ELSE settled
  /\ UNCHANGED <<storing, refs, resolver, doc, born, begun>>

-----------------------------------------------------------------------------
(* An index is read, changed and written back by two requests.             *)
Steps == [readLocal |-> "writeLocal", writeLocal |-> "readRemote",
          readRemote |-> "writeRemote", writeRemote |-> "last"]
Key(c) == IF op[c].at \in {"readLocal", "writeLocal"} THEN Local ELSE op[c].entity

ReadIndex(c) ==
  /\ op[c].at \in {"readLocal", "readRemote"}
  /\ op' = [op EXCEPT ![c].at = Steps[@], ![c].seen = index[Key(c)]]
  /\ UNCHANGED <<storing, refs, resolver, doc, born, begun, settled>>

WriteIndex(c) ==
  /\ op[c].at \in {"writeLocal", "writeRemote"} /\ At(c, Steps[op[c].at])
  /\ index' = [index EXCEPT ![Key(c)] =
                 IF op[c].kind = "link" THEN op[c].seen \union {op[c].link}
                                        ELSE op[c].seen \ {op[c].link}]
  /\ UNCHANGED <<links, refs, resolver, doc, born, begun, settled>>

(* Mutant: the references of the task are replaced. *)
Replaced(existing, new) == new

(* mergeExternalRefs. *)
Merged(existing, new) == existing \union new

(* The rest of linkTracker: onto the references it has read.               *)
Linked(c) ==
  /\ op[c].kind = "link" /\ op[c].at = "last" /\ Finish(c)
  /\ refs' = Merged(op[c].refs, {op[c].entity})
  /\ settled' = IF op[c].alone THEN settled \union {<<"link", op[c].link>>} ELSE settled
  /\ UNCHANGED <<storing, resolver, doc, born, begun>>

Fail(c) ==
  /\ op[c] # Idle /\ Finish(c)
  /\ UNCHANGED <<storing, refs, resolver, doc, born, begun, settled>>

-----------------------------------------------------------------------------
NobodyChecks == \A c \in Clients : ~Checking(c)

(* applyTaskUpdate of resolver_refs: fields that were undefined stay.      *)
Updated(r, update) ==
  [acks  |-> IF update.acks = <<>> THEN r.acks ELSE update.acks,
   docs  |-> IF update.docs = 0 THEN r.docs ELSE update.docs,
   stale |-> update.stale]

(* resolveDocs: other documents, and the task is fresh.                    *)
ResolveDocs(d) ==
  /\ resolver' = Updated(resolver, [acks |-> <<>>, docs |-> d, stale |-> "fresh"])
  /\ settled' = LET others == Forget({<<"docs", x>> : x \in 1..MaxVersion}) IN
       IF NobodyChecks THEN others \union {<<"docs", d>>} ELSE others
  /\ UNCHANGED <<storing, refs, doc, op, born, begun>>

(* ackDocs: a version that was acknowledged before keeps its place.        *)
AckDocs(v) ==
  /\ resolver' = [resolver EXCEPT !.acks = IF \E i \in DOMAIN @ : @[i] = v THEN @ ELSE Append(@, v)]
  /\ settled' = IF NobodyChecks THEN settled \union {<<"ack", v>>} ELSE settled
  /\ UNCHANGED <<storing, refs, doc, op, born, begun>>

(* staleCheck, up to its await; without acknowledgements it checks nothing *)
StaleCheck(c) ==
  /\ resolver.acks # <<>>
  /\ Begin(c, [Idle EXCEPT !.kind = "check", !.at = "version", !.resolver = resolver])
  /\ UNCHANGED <<storing, refs, resolver, doc, born, settled>>

GetVersion(c) ==
  /\ op[c].at = "version"
  /\ op' = [op EXCEPT ![c].at = "check", ![c].version = doc]
  /\ UNCHANGED <<storing, refs, resolver, doc, born, begun, settled>>

(* checkStale: the last acknowledgement of the document counts.            *)
IsStale(acks, version) == version = 0 \/ version # acks[Len(acks)]

(* Mutant: only the acknowledgement that was checked is written back.      *)
CheckedForgets(c) ==
  /\ op[c].at = "check" /\ Finish(c)
  /\ LET seen == op[c].resolver IN
     resolver' = IF IsStale(seen.acks, op[c].version)
                   THEN Updated(resolver, [seen EXCEPT !.stale = "stale", !.acks = <<@[Len(@)]>>])
                   ELSE resolver
  /\ UNCHANGED <<storing, refs, doc, born, begun, settled>>

(* The rest of staleCheck: onto the references it has read.                *)
Checked(c) ==
  /\ op[c].at = "check" /\ Finish(c)
  /\ resolver' = IF IsStale(op[c].resolver.acks, op[c].version)
                   THEN Updated(resolver, [op[c].resolver EXCEPT !.stale = "stale"]) ELSE resolver
  /\ UNCHANGED <<storing, refs, doc, born, begun, settled>>

(* The resolver gets another version of the document, or loses it.         *)
Publish(v) ==
  /\ v # doc /\ doc' = v
  /\ UNCHANGED <<storing, refs, resolver, op, born, begun, settled>>

-----------------------------------------------------------------------------
Init ==
  /\ links = {} /\ index = [k \in {Local} \union Entities |-> {}] /\ refs = {}
  /\ resolver = Idle.resolver /\ doc = 0 /\ op = [c \in Clients |-> Idle]
  /\ born = <<>> /\ begun = 0 /\ settled = {}

(* The references of the tracker, and those of the resolver.               *)
LinkNext ==
  \E c \in Clients :
    \/ \E e \in Entities : LinkTracker(c, e) \/ UnlinkTracker(c, e)
    \/ SetEntityLink(c) \/ ListLinks(c) \/ FindLink(c) \/ DeleteLink(c) \/ Unlinked(c)
    \/ ReadIndex(c) \/ WriteIndex(c) \/ Linked(c) \/ Fail(c)

ReadNext ==
  \/ \E c \in Clients : StaleCheck(c) \/ GetVersion(c) \/ Checked(c) \/ Fail(c)
  \/ \E v \in 1..MaxVersion : ResolveDocs(v) \/ AckDocs(v)
  \/ \E v \in 0..MaxVersion : Publish(v)

Next == LinkNext \/ ReadNext

Spec == Init /\ [][Next]_vars

-----------------------------------------------------------------------------
(* A link made while no other was made or removed is in both indexes and   *)
(* in the references of the task, whatever other requests do to them and   *)
(* wherever they fail, until it is removed.                                *)
LinkedIsFound ==
  \A l \in Ids : Settled("link", l)
    => l \in links /\ l \in index[Local] /\ l \in index[born[l]] /\ born[l] \in refs

(* No stored link of the task leads to an entity it was unlinked from.     *)
(* The list of the task may still name one that is stored no more: an      *)
(* operation that read the list before writes it back, and since           *)
(* deleteEntityLink does not find the link, no later unlink takes it out.  *)
UnlinkedIsGone ==
  \A e \in Entities : Settled("unlinked", e) => \A l \in index[Local] \cap links : born[l] # e

(* What the task is linked with stays what it was told to be linked with.  *)
LinksAreKept == LinkedIsFound /\ UnlinkedIsGone

(* What was acknowledged or resolved while no check was in flight is not   *)
(* undone by the checks and resolutions that follow.                       *)
AcknowledgedIsKnown ==
  \A v \in 1..MaxVersion :
    /\ Settled("ack", v) => \E i \in DOMAIN resolver.acks : resolver.acks[i] = v
    /\ Settled("docs", v) => resolver.docs = v
=============================================================================
