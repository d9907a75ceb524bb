---------------------------- MODULE FirewallSync ----------------------------
(***************************************************************************)
(* Pushing the active bans to an external firewall: the periodic round,    *)
(* the manual sync, changes of a provider and its removal, which run       *)
(* concurrently, over pushes that may fail half-way                        *)
(* (src/src/services/firewall-sync-service.ts).                            *)
(*                                                                         *)
(* One provider is modelled; a round does one after the other with the     *)
(* same desired list.  The hash of a list stands for the list.  A network  *)
(* is the set of addresses it covers and the one it is written with.       *)
(***************************************************************************)
EXTENDS Integers, SequencesExt

CONSTANTS
    Address,
    Private,            \* addresses in private or loopback ranges
    Cidr,               \* networks
    Ruled, Trusted,     \* bound: those that rules block and that may be whitelisted
    Covers,             \* the addresses of a network
    Base,               \* the address before the slash
    Target,             \* firewalls that config_json may name
    Untaken,            \* networks the adapter leaves out: the IPv6 ones for OVH and AWS
    Slots,              \* rules a firewall has room for next to the admin's own
    Caps,               \* values of max_entries
    NoHash, NoTarget,
    MaxChanges,         \* bound: changes of the rules and of the whitelist
    MaxEdits,           \* bound: changes of the provider
    MaxManual,          \* bound: manual syncs
    MaxFaults           \* bound: failed pushes, failed teardowns and restarts

ASSUME Networks ==
    /\ Private \subseteq Address /\ Ruled \union Trusted \union Untaken \subseteq Cidr
    /\ Covers \in [Cidr -> SUBSET Address] /\ Base \in [Cidr -> Address]
    /\ \A c \in Cidr : Base[c] \in Covers[c]
ASSUME Limits == Caps \subseteq Nat /\ Slots \in [Target -> Nat]
ASSUME TargetsNamed == Target # {} /\ NoTarget \notin Target

VARIABLES
    bans,               \* active block rules, newest first, without duplicates
    whitelist,          \* firewall_sync_whitelist_cidrs
    row,                \* the row of the provider
    remote,             \* what the managed rules of each firewall drop
    jobs,               \* reconciliations under way: the round's and the manual ones
    deleting,           \* a deleteProvider under way, with the target it tears down
    suspect,            \* history: the firewall may differ from what the row says
    changes, edits, asked, faults

bounds == <<changes, edits, asked, faults>>
vars == <<bans, whitelist, row, remote, jobs, deleting, suspect, bounds>>

Row == [exists : BOOLEAN, enabled : BOOLEAN, target : Target, max : Caps, hash : Seq(Cidr) \union {NoHash}]
Job == [by : {"round", "admin"}, id : Nat, pc : {"list", "push", "record"},
        row : Row, list : Seq(Cidr), alone : BOOLEAN]

TypeOK ==
    /\ bans \in Seq(Cidr) /\ whitelist \subseteq Cidr
    /\ row \in Row
    /\ remote \in [Target -> SUBSET Cidr]
    /\ jobs \subseteq Job
    /\ \A i, j \in jobs : i.by = "round" /\ j.by = "round" => i = j
    /\ deleting \in Target \union {NoTarget}
    /\ suspect \in BOOLEAN

Init ==
    /\ bans = <<>> /\ whitelist = {}
    /\ row \in [exists : {TRUE}, enabled : BOOLEAN, target : {CHOOSE t \in Target : TRUE}, max : Caps, hash : {NoHash}]
    /\ remote = [t \in Target |-> {}]
    /\ jobs = {} /\ deleting = NoTarget /\ suspect = FALSE
    /\ changes = 0 /\ edits = 0 /\ asked = 0 /\ faults = 0

(***************************************************************************)
(* The rules and the desired list                                          *)
(***************************************************************************)

(* cidrWithin                                                              *)
Within(c, container) == Covers[c] \subseteq Covers[container]

(* filterBannableCidrs: only the address before the slash is looked up     *)
(* among the private ones, and a ban that encloses a whitelisted network   *)
(* is no ban within one.                                                   *)
Bannable(c) == Base[c] \notin Private /\ ~\E w \in whitelist : Within(c, w)

(* aggregateBannedCidrs                                                    *)
Aggregated == SelectSeq(bans, Bannable)

Changed == changes < MaxChanges /\ changes' = changes + 1

(* A rule is added, or expires; one that is added again is the newest.     *)
ChangeRule(c) ==
    /\ Changed
    /\ bans' \in {<<c>> \o Remove(bans, c), Remove(bans, c)} /\ bans' # bans
    /\ UNCHANGED <<whitelist, row, remote, jobs, deleting, suspect, edits, asked, faults>>

(* addFirewallSyncWhitelistCidr, removeFirewallSyncWhitelistCidr           *)
ChangeWhitelist(c) ==
    /\ Changed
    /\ whitelist' = IF c \in whitelist THEN whitelist \ {c} ELSE whitelist \union {c}
    /\ UNCHANGED <<bans, row, remote, jobs, deleting, suspect, edits, asked, faults>>

(***************************************************************************)
(* reconcileProvider                                                       *)
(***************************************************************************)

Capped(list, cap) == SubSeq(list, 1, IF Len(list) < cap THEN Len(list) ELSE cap)

(* What the adapter makes of the list it is given: the networks it can     *)
(* write rules for, the first of them that find a slot.  It reports        *)
(* success for the others as well.                                         *)
Taken(t, list) ==
    LET Takes(c) == c \notin Untaken
    IN  ToSet(Capped(SelectSeq(list, Takes), Slots[t]))

NewJob(by, id) ==
    [by |-> by, id |-> id, pc |-> "list", row |-> row, list |-> <<>>, alone |-> jobs = {} /\ deleting = NoTarget]

Crossed(S) == {[j EXCEPT !.alone = FALSE] : j \in S}

(* tick: a round that runs keeps the next one out, not a manual sync.      *)
StartRound ==
    /\ \A j \in jobs : j.by # "round"
    /\ row.exists /\ row.enabled
    /\ jobs' = Crossed(jobs) \union {NewJob("round", 0)}
    /\ UNCHANGED <<bans, whitelist, row, remote, deleting, suspect, bounds>>

(* syncNow                                                                 *)
StartManual ==
    /\ asked < MaxManual /\ asked' = asked + 1
    /\ row.exists
    /\ jobs' = Crossed(jobs) \union {NewJob("admin", asked')}
    /\ UNCHANGED <<bans, whitelist, row, remote, deleting, suspect, changes, edits, faults>>

Advanced(j, pc) == jobs' = (jobs \ {j}) \union {[j EXCEPT !.pc = pc]}

(* The desired list is read after the row.                                 *)
ReadList(j) ==
    /\ j \in jobs /\ j.pc = "list"
    /\ jobs' = (jobs \ {j}) \union {[j EXCEPT !.pc = "push", !.list = Capped(Aggregated, j.row.max)]}
    /\ UNCHANGED <<bans, whitelist, row, remote, deleting, suspect, bounds>>

(* Faulty variant: a list of the same length is taken to be pushed.        *)
SameLength(j) == j.by = "round" /\ j.row.hash # NoHash /\ Len(j.list) = Len(j.row.hash)

(* The list is the one that was pushed last, by the row read before.       *)
Unchanged(j) == j.by = "round" /\ j.list = j.row.hash

(* updateFirewallSyncProviderResult: nothing happens without a row.        *)
Recorded(hash) == row' = IF row.exists THEN [row EXCEPT !.hash = hash] ELSE row

(* Nothing is pushed, and what was read of the row is written back.        *)
Skip(j) ==
    /\ j \in jobs /\ j.pc = "push" /\ Unchanged(j)
    /\ Recorded(j.row.hash)
    /\ jobs' = jobs \ {j}
    /\ suspect' = (suspect \/ ~j.alone)
    /\ UNCHANGED <<bans, whitelist, remote, deleting, bounds>>

(* The adapter replaces the managed rules of the firewall.                 *)
Push(j) ==
    /\ j \in jobs /\ j.pc = "push" /\ ~Unchanged(j)
    /\ remote' = [remote EXCEPT ![j.row.target] = Taken(j.row.target, j.list)]
    /\ Advanced(j, "record")
    /\ UNCHANGED <<bans, whitelist, row, deleting, suspect, bounds>>

(* It fails, with some of its requests done; the old hash is kept.         *)
PushFails(j) ==
    /\ j \in jobs /\ j.pc = "push" /\ ~Unchanged(j)
    /\ faults < MaxFaults /\ faults' = faults + 1
    /\ \E part \in SUBSET (remote[j.row.target] \union Taken(j.row.target, j.list)) :
          remote' = [remote EXCEPT ![j.row.target] = part]
    /\ Recorded(j.row.hash)
    /\ jobs' = jobs \ {j}
    /\ suspect' = TRUE
    /\ UNCHANGED <<bans, whitelist, deleting, changes, edits, asked>>

(* Faulty variant: the list at the end counts as the one that was pushed.  *)
RecordLatest(j) ==
    /\ j \in jobs /\ j.pc = "record"
    /\ Recorded(Capped(Aggregated, j.row.max))
    /\ jobs' = jobs \ {j}
    /\ suspect' = ~j.alone
    /\ UNCHANGED <<bans, whitelist, remote, deleting, bounds>>

(* The hash of what was pushed is recorded.                                *)
Record(j) ==
    /\ j \in jobs /\ j.pc = "record"
    /\ Recorded(j.list)
    /\ jobs' = jobs \ {j}
    /\ suspect' = ~j.alone
    /\ UNCHANGED <<bans, whitelist, remote, deleting, bounds>>

(***************************************************************************)
(* The provider                                                            *)
(***************************************************************************)

Edited == edits < MaxEdits /\ edits' = edits + 1

(* updateFirewallSyncProvider leaves the hash.  Enabling takes a whitelist *)
(* or an acknowledgement; either may be there.                             *)
Update(enabled, target, max) ==
    /\ row.exists /\ Edited /\ <<enabled, target, max>> # <<row.enabled, row.target, row.max>>
    /\ row' = [row EXCEPT !.enabled = enabled, !.target = target, !.max = max]
    /\ suspect' = (suspect \/ target # row.target)
    /\ jobs' = IF target = row.target THEN jobs ELSE Crossed(jobs)
    /\ UNCHANGED <<bans, whitelist, remote, deleting, changes, asked, faults>>

(* Faulty variant: a disabled provider is taken to have nothing out there. *)
TeardownIfEnabled ==
    /\ row.exists /\ deleting = NoTarget /\ Edited
    /\ deleting' = row.target
    /\ jobs' = Crossed(jobs)
    /\ remote' = IF row.enabled THEN [remote EXCEPT ![row.target] = {}] ELSE remote
    /\ suspect' = (suspect \/ jobs # {})
    /\ UNCHANGED <<bans, whitelist, row, changes, asked, faults>>

(* deleteProvider: the teardown ...                                        *)
Teardown ==
    /\ row.exists /\ deleting = NoTarget /\ Edited
    /\ deleting' = row.target
    /\ jobs' = Crossed(jobs)
    /\ \/ remote' = [remote EXCEPT ![row.target] = {}] /\ suspect' = (suspect \/ jobs # {}) /\ UNCHANGED faults
       \/ faults < MaxFaults /\ faults' = faults + 1 /\ suspect' = TRUE /\ UNCHANGED remote
    /\ UNCHANGED <<bans, whitelist, row, changes, asked>>

(* ... and then the row, whatever came of it.                              *)
DeleteRow ==
    /\ deleting # NoTarget /\ deleting' = NoTarget
    /\ row' = [row EXCEPT !.exists = FALSE]
    /\ UNCHANGED <<bans, whitelist, remote, jobs, suspect, bounds>>

(* The process restarts.                                                   *)
Restart ==
    /\ faults < MaxFaults /\ faults' = faults + 1
    /\ jobs' = {} /\ deleting' = NoTarget
    /\ suspect' = (suspect \/ deleting # NoTarget \/ \E j \in jobs : j.pc = "record")
    /\ UNCHANGED <<bans, whitelist, row, remote, changes, edits, asked>>

JobStep(by) == \E j \in jobs : j.by = by /\ (ReadList(j) \/ Skip(j) \/ Push(j) \/ PushFails(j) \/ Record(j))

Next ==
    \/ \E c \in Ruled : ChangeRule(c)
    \/ \E c \in Trusted : ChangeWhitelist(c)
    \/ StartRound \/ StartManual \/ \E by \in {"round", "admin"} : JobStep(by)
    \/ \E e \in BOOLEAN, t \in Target, m \in Caps : Update(e, t, m)
    \/ Teardown \/ DeleteRow \/ Restart

Spec == Init /\ [][Next]_vars

(* The timer fires and awaited calls end.                                  *)
Fairness ==
    /\ WF_vars(StartRound) /\ WF_vars(JobStep("round")) /\ WF_vars(JobStep("admin")) /\ WF_vars(DeleteRow)

FairSpec == Spec /\ Fairness

(***************************************************************************)
(* Properties.  A push that failed or overlapped another one, a changed    *)
(* target and a restart before the result is recorded leave the firewall   *)
(* suspect until a push that runs alone; they are left out below.          *)
(***************************************************************************)

InStep == jobs = {} /\ deleting = NoTarget /\ ~suspect

(* The hash in the row, by which rounds decide to push nothing, is the one *)
(* of the list whose networks the firewall drops, those of them that the   *)
(* adapter takes, however rules, the whitelist and the provider changed    *)
(* while the list was read and pushed (reconcileProvider).                 *)
RowTellsTheFirewall ==
    InStep /\ row.exists /\ row.hash # NoHash => remote[row.target] = Taken(row.target, row.hash)

(* A deleted provider, an enabled or a disabled one, leaves nothing on the *)
(* firewall its row names last that this goes on dropping                  *)
(* (deleteProvider).  An edit that names another firewall leaves the       *)
(* earlier one as it is, and nothing in the code empties that later.       *)
DeletedDropsNothing ==
    InStep /\ ~row.exists => remote[row.target] = {}

(* What is wanted of a firewall.  A ban is allowed if it is not written    *)
(* with a private address and no whitelisted network contains it; a range  *)
(* around such an address is allowed.  The newest allowed ones count for   *)
(* max_entries, those the adapter leaves out among them, and the newest of *)
(* the rest find a slot.                                                   *)
Wanted(S) ==
    LET allowed == {i \in DOMAIN bans : Base[bans[i]] \notin Private
                                        /\ \A w \in whitelist : Covers[bans[i]] \ Covers[w] # {}}
        taken == {i \in allowed : bans[i] \notin Untaken}
        Newer(I, i) == Cardinality({k \in I : k < i})
    IN  S = {bans[i] : i \in {k \in taken : Newer(allowed, k) < row.max /\ Newer(taken, k) < Slots[row.target]}}

(* Once rules, whitelist and provider stay as they are, the firewall of an *)
(* enabled provider drops what is wanted in the end and from then on: a    *)
(* ban arrives, and one that expired or was whitelisted is lifted, and a   *)
(* push that failed is made again unless the row already holds the hash of *)
(* the list (tick).                                                        *)
FirewallFollowsRules ==
    <>[](row.exists /\ row.enabled /\ (suspect => row.hash # Capped(Aggregated, row.max))
            => Wanted(remote[row.target]))
=============================================================================
