------------------------------ MODULE Listing ------------------------------
(***************************************************************************)
(* The list endpoints (GET /vms, /flavors, /images) and a client that      *)
(* reads a list page by page while it changes.                             *)
(*                                                                         *)
(* Every request fetches the whole list anew and answers a slice of it, so *)
(* two pages are slices of two lists.  The client either walks forward     *)
(* until it has passed `total`, or has a fixed set of pages to read, in    *)
(* any order: the blocks of a Terraform configuration.                     *)
(***************************************************************************)
EXTENDS Integers, Sequences, FiniteSets, SequencesExt

CONSTANTS Ids,       \* servers, flavors or images, present and to come
          Bad,       \* those whose conversion to the response schema raises
          Limits,    \* page sizes clients ask for
          MaxLimit,  \* the `le` of the limit parameter
          Blocks,    \* pages of the Terraform configuration, from 0
          MaxChanges \* bound on what happens to the list during one reading

ASSUME BadAssumption == Bad \subseteq Ids
ASSUME LimitsAssumption == Limits \subseteq Nat /\ MaxLimit \in Nat
ASSUME MaxChangesAssumption == MaxChanges \in Nat
ASSUME BlocksAssumption == Blocks \subseteq Nat /\ IsFiniteSet(Blocks)

Kinds == {"vms", "flavors", "images"}

VARIABLES kind,     \* which list is read
          filter,   \* whether status=ACTIVE is asked for, of GET /vms
          items,    \* what OpenStack holds, in the order it lists it
          active,   \* the servers whose raw status is ACTIVE
          mode,     \* "walk" or "blocks"
          limit,    \* the page size asked for
          unread,   \* pages still to be read
          pc,       \* "reading", "done" or "failed"
          got,      \* the ids received, in the order they came
          kept,     \* history: ids in the list all the time since the start
          entered,  \* history: how many ids came into the list since then
          left      \* history: how many went out of it

fixed == <<kind, filter, mode, limit>>
client == <<unread, pc, got>>
vars == <<kind, filter, items, active, mode, limit, unread, pc, got, kept,
          entered, left>>

TypeOK ==
  /\ kind \in Kinds
  /\ filter \in BOOLEAN
  /\ items \in Seq(Ids) /\ IsInjective(items)
  /\ active \subseteq Ids
  /\ mode \in {"walk", "blocks"}
  /\ limit \in Limits
  /\ unread \subseteq Nat
  /\ pc \in {"reading", "done", "failed"}
  /\ got \in Seq(Ids)
  /\ kept \subseteq Ids
  /\ entered \in Nat /\ left \in Nat

-----------------------------------------------------------------------------
(* The API.                                                                *)

\* The elements of s that are in S, in the order of s, which repeats none.
Keep(s, S) ==
  LET upTo(n) == {s[m] : m \in 1 .. n} \cap S
  IN [k \in 1 .. Cardinality(upTo(Len(s))) |->
        s[CHOOSE n \in 1 .. Len(s) : s[n] \in S /\ Cardinality(upTo(n)) = k]]

\* Broken variant: the second bound of the slice is the limit.
Slice_LimitIsEnd(s, offset, n) == SubSeq(s, offset + 1, IF n < Len(s) THEN n ELSE Len(s))

\* Broken variant: offsets count from one.
Slice_FromOne(s, offset, n) ==
  SubSeq(s, IF offset = 0 THEN 1 ELSE offset,
         IF offset + n < Len(s) THEN offset + n ELSE Len(s))

\* s[offset : offset + n]
Slice(s, offset, n) ==
  SubSeq(s, offset + 1, IF offset + n < Len(s) THEN offset + n ELSE Len(s))

\* PaginatedResponse.from_page.
FromPage(data, total) == [code |-> "200", data |-> data, total |-> total]

\* A request refused (422), or one in which a conversion raised (500).
Error(code) == [code |-> code, data |-> <<>>, total |-> 0]

Readable(ids) == Range(ids) \cap Bad = {}

\* list_vms: Nova filters by its own status; only the slice is converted.
ListVms(offset, n) ==
  LET servers == Keep(items, IF filter THEN active ELSE Ids)
      slice == Slice(servers, offset, n)
  IN IF Readable(slice) THEN FromPage(slice, Len(servers)) ELSE Error("500")

\* list_flavors: all are converted, then sliced.
ListFlavors(offset, n) ==
  IF Readable(items) THEN FromPage(Slice(items, offset, n), Len(items)) ELSE Error("500")

\* Broken variant: images are left out after slicing.
ListImages_SlicedFirst(offset, n) ==
  FromPage(Keep(Slice(items, offset, n), Ids \ Bad),
           Len(Keep(items, Ids \ Bad)))

\* list_images: images that cannot be converted are left out, then sliced.
ListImages(offset, n) ==
  LET images == Keep(items, Ids \ Bad)
  IN FromPage(Slice(images, offset, n), Len(images))

\* The list endpoints; limit is Query(ge=1, le=200).
Get(offset, n) ==
  IF n \notin 1 .. MaxLimit THEN Error("422")
  ELSE CASE kind = "vms" -> ListVms(offset, n)
         [] kind = "flavors" -> ListFlavors(offset, n)
         [] kind = "images" -> ListImages(offset, n)

\* What of the list a request is about.
Wanted(act) ==
  CASE kind = "vms" -> IF filter THEN act ELSE Ids
    [] kind = "flavors" -> Ids
    [] kind = "images" -> Ids \ Bad

\* The list a client means: what a single page of any size would hold.
Listed(s, act) == Keep(s, Wanted(act))

-----------------------------------------------------------------------------
(* The client.                                                             *)

Init ==
  /\ kind \in Kinds
  /\ filter \in IF kind = "vms" THEN BOOLEAN ELSE {FALSE}
  /\ items \in UNION {SetToSeqs(S) : S \in {T \in SUBSET Ids : IsFiniteSet(T)}}
  /\ active \in IF kind = "vms" THEN SUBSET Range(items) ELSE {{}}
  /\ mode \in {"walk", "blocks"}
  /\ limit \in Limits
  /\ unread = IF mode = "walk" THEN {0} ELSE Blocks
  /\ pc = "reading"
  /\ got = <<>>
  /\ kept = Range(Listed(items, active))
  /\ entered = 0
  /\ left = 0

\* Broken variant: a walk goes back, past the first page.
ReadPage_Backwards(p) ==
  /\ pc = "reading" /\ p \in unread
  /\ unread' = {p - 1}
  /\ UNCHANGED <<fixed, items, active, pc, got, kept, entered, left>>

\* One request.  A forward walk goes on as long as total says there is more;
\* the Read of a data source asks for the page it is configured with.
ReadPage(p) ==
  /\ pc = "reading" /\ p \in unread
  /\ LET page == Get(p * limit, limit)
         next == IF mode = "walk"
                 THEN IF (p + 1) * limit < page.total THEN {p + 1} ELSE {}
                 ELSE unread \ {p}
     IN \/ /\ page.code = "200"
           /\ got' = got \o page.data
           /\ unread' = next
           /\ pc' = IF next = {} THEN "done" ELSE "reading"
        \/ /\ page.code # "200"
           /\ pc' = "failed"
           /\ UNCHANGED <<got, unread>>
  /\ UNCHANGED <<fixed, items, active, kept, entered, left>>

-----------------------------------------------------------------------------
(* OpenStack meanwhile.                                                    *)

\* The list becomes that of s and act.
Changes(s, act) ==
  LET before == Range(Listed(items, active))
      after == Range(Listed(s, act))
  IN /\ pc = "reading"
     /\ items' = s /\ active' = act
     /\ kept' = kept \cap after
     /\ entered' = entered + Cardinality(after \ before)
     /\ left' = left + Cardinality(before \ after)
     /\ UNCHANGED <<fixed, client>>

\* Servers and images are listed newest first, flavors in an order of their own.
\* A new server is not ACTIVE yet.
Added(i) ==
  /\ i \notin Range(items)
  /\ \E at \in IF kind = "flavors" THEN 1 .. Len(items) + 1 ELSE {1} :
       Changes(InsertAt(items, at, i), active)

Removed(i) ==
  /\ i \in Range(items)
  /\ Changes(Keep(items, Ids \ {i}), active \ {i})

StatusChanges(i) ==
  /\ kind = "vms" /\ i \in Range(items)
  /\ Changes(items, IF i \in active THEN active \ {i} ELSE active \cup {i})

Next ==
  \/ \E p \in unread : ReadPage(p)
  \/ /\ entered + left < MaxChanges
     /\ \E i \in Ids : Added(i) \/ Removed(i) \/ StatusChanges(i)

Spec == Init /\ [][Next]_vars

-----------------------------------------------------------------------------
(* Properties.                                                             *)

Missed == kept \ Range(got)
Repeats == Len(got) - Cardinality(Range(got))

\* A forward walk over pages taken from different lists misses no more of the
\* items that were there all the time than others went out of the list while it
\* walked: none at all if none went.
WalkMissesAreBounded == mode = "walk" /\ pc = "done" => Cardinality(Missed) <= left

\* Likewise it returns an item again at most once for every item that came in.
WalkRepeatsAreBounded == mode = "walk" => Repeats <= entered

\* Data sources that cover the list, read in any order, hold each of its items
\* exactly once if it did not change meanwhile.
BlocksPartitionTheList ==
  /\ mode = "blocks" /\ pc = "done" /\ entered = 0 /\ left = 0
  /\ Blocks = 0 .. Cardinality(Blocks) - 1
  /\ Cardinality(kept) <= limit * Cardinality(Blocks)
  => Missed = {} /\ Repeats = 0
=============================================================================
