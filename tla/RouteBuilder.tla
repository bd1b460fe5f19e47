---------------------------- MODULE RouteBuilder ----------------------------
(***************************************************************************)
(* The route builder (apps/web routes/actions.ts): teachers edit the draft *)
(* version of one route plan, validate it, publish it and start the next   *)
(* draft.  A published version is not to change any more.                  *)
(*                                                                         *)
(* An editing form carries the lock_version its page was rendered with;    *)
(* the handlers compare and increment it in one UPDATE and go on in        *)
(* further statements outside a transaction, so that other requests act in *)
(* between.  Each statement, or each run of statements without an effect   *)
(* on others, is one action.  A request may die between any two.           *)
(***************************************************************************)
EXTENDS RouteContents

CONSTANTS
    Requests,     \* browser tabs, each with at most one request under way
    NeedsPayload, \* items of kinds that need a book range or a homework mode
    MaxVersions,  \* bound: the versions of the plan
    MaxLock       \* bound: lock_version

ASSUME BuilderAssumption ==
    /\ NeedsPayload \subseteq Items
    /\ MaxVersions \in Nat \ {0}
    /\ MaxLock \in Nat \ {0}

Versions == 1..MaxVersions
Rows == {RowId(v, i) : v \in Versions, i \in Items}
None == 0

VARIABLES
    lock,     \* route_plans.lock_version
    active,   \* route_plans.active_version_id, None before the first publication
    status,   \* status[v]: route_versions.status, "absent" before the insert
    report,   \* report[v]: validation_report, with the contents it is about
    nodes,    \* nodes[v]: the route_nodes of v
    blank,    \* blank[v]: those that need a payload and have none
    request,  \* request[r]: what r has read and does next
    frozen,   \* history: the contents v was published with, if it was
    slips     \* history: the races that requests on v have lost, by name

vars == <<lock, active, status, report, nodes, blank, request, frozen, slips>>

Empty == [n \in {} |-> 0]
NoReport == [ok |-> FALSE, on |-> <<>>]
NoIntent == [op |-> "none", node |-> 0, direction |-> "none"]
Idle == [step |-> "idle", intent |-> NoIntent, token |-> 0, page |-> Empty, ready |-> FALSE,
         settled |-> FALSE, version |-> None, start |-> Empty, swap |-> Empty, olds |-> {}]

Intents ==
    [op : {"add"}, node : Items, direction : {"none"}]
    \cup [op : {"delete"}, node : Rows, direction : {"none"}]
    \cup [op : {"move"}, node : Rows, direction : {"up", "down"}]
    \cup {[op |-> "publish", node |-> 0, direction |-> "none"]}

\* createRoutePlan: a plan and its first draft.
Init ==
    /\ lock = 1
    /\ active = None
    /\ status = [v \in Versions |-> IF v = 1 THEN "draft" ELSE "absent"]
    /\ report = [v \in Versions |-> NoReport]
    /\ nodes = [v \in Versions |-> Empty]
    /\ blank = [v \in Versions |-> {}]
    /\ request = [r \in Requests |-> Idle]
    /\ frozen = [v \in Versions |-> {}]
    /\ slips = [v \in Versions |-> {}]

Screens == {"idle", "page", "conflict"}
UnderWay(r) == request[r].step \notin Screens

Goes(r, step) == request' = [request EXCEPT ![r].step = step]
Ends(r) == request' = [request EXCEPT ![r] = Idle]

\* findDraftVersion.
Editable == {v \in Versions : status[v] \in {"draft", "needs_fix", "publishable"}}
DraftVersion == IF Editable = {} THEN None ELSE Max(Editable)
DraftNodes == IF DraftVersion = None THEN Empty ELSE nodes[DraftVersion]

planVars == <<lock, active, status, report, nodes, blank, frozen>>
versionVars == <<active, status, report, nodes, blank, frozen>>

\* A draft is read while no other request is between two of its statements.
Settled(r) ==
    /\ DraftVersion # None
    /\ \A q \in Requests \ {r} : request[q].step \in Screens \cup {"bump"}

\* History: what has gone wrong with v, of what the properties except.
Slips(v, names) == slips' = [slips EXCEPT ![v] = @ \cup names]

-----------------------------------------------------------------------------
(* Pages. *)

\* The page reads the token, then the draft version and its nodes.  It offers
\* forms only for a draft; without one, just the button for the next draft.
OpenPage(r) ==
    /\ request[r].step = "idle"
    /\ DraftVersion # None
    /\ request' = [request EXCEPT ![r] =
                     [Idle EXCEPT !.step = "page", !.token = lock, !.page = DraftNodes,
                        !.settled = Settled(r),
                        !.ready = status[DraftVersion] = "publishable" /\ report[DraftVersion].ok]]
    /\ UNCHANGED <<planVars, slips>>

LeavePage(r) ==
    /\ request[r].step \in {"page", "conflict"}
    /\ Ends(r)
    /\ UNCHANGED <<planVars, slips>>

IsEdit(intent) == intent.op \in {"add", "delete", "move"}

\* Edits of nodes on the page; what is added, nobody else has added or is adding.
IsNew(r, intent) ==
    intent.op = "add" =>
        /\ \A n \in DOMAIN DraftNodes : ItemOf(n) # intent.node
        /\ \A q \in Requests \ {r} : request[q].intent # intent
CanIntend(r, intent) ==
    /\ intent.op \in {"delete", "move"} => intent.node \in DOMAIN request[r].page
    /\ intent.op = "publish" => request[r].ready
    /\ IsNew(r, intent)

\* The handlers of an edit read the draft version; publishRoute does not.
Submit(r, intent) ==
    /\ request[r].step = "page"
    /\ IF intent.op # "publish" /\ DraftVersion = None
       THEN Ends(r)
       ELSE request' = [request EXCEPT ![r].step = "bump", ![r].ready = FALSE,
                          ![r].intent = intent, ![r].version = DraftVersion, ![r].start = DraftNodes]
    /\ UNCHANGED <<planVars, slips>>

\* bumpLockOrConflict: one conditional UPDATE.
TokenMatchesAny(r) == TRUE \* Variant: no comparison.
TokenMatches(r) == request[r].token = lock

Bump(r) ==
    /\ request[r].step = "bump"
    /\ TokenMatches(r)
    /\ lock < MaxLock
    /\ lock' = lock + 1
    /\ request' = [request EXCEPT ![r] =
                     IF @.intent.op = "publish"
                     THEN [Idle EXCEPT !.step = "read", !.intent = request[r].intent]
                     ELSE [@ EXCEPT !.step = IF request[r].intent.op = "move" THEN "read" ELSE "write",
                             !.page = Empty]]
    /\ UNCHANGED <<versionVars, slips>>

\* conflictResult: the comparison is shown with the latest token.
Refuse(r) ==
    /\ request[r].step = "bump"
    /\ ~TokenMatches(r)
    /\ request' = [request EXCEPT ![r] =
                     [Idle EXCEPT !.step = "conflict", !.intent = request[r].intent,
                        !.token = lock, !.settled = Settled(r),
                        !.page = request[r].page, !.start = DraftNodes]]
    /\ UNCHANGED <<planVars, slips>>

\* The form of the conflict screen: the same edit, the latest token and contents.
\* It does not carry the payload of a node to add, which is refused without.
Reapply(r) ==
    /\ request[r].step = "conflict"
    /\ ReapplyPossible(request[r].start, request[r].intent)
    /\ IsNew(r, request[r].intent)
    /\ IF \/ request[r].intent.op = "add" /\ request[r].intent.node \in NeedsPayload
          \/ request[r].intent.op # "publish" /\ DraftVersion = None
       THEN Ends(r)
       ELSE request' = [request EXCEPT ![r].step = "bump", ![r].page = request[r].start,
                          ![r].version = DraftVersion, ![r].start = DraftNodes]
    /\ UNCHANGED <<planVars, slips>>

-----------------------------------------------------------------------------
(* Edits. *)

\* moveRouteNode looks for the next sort order on that side of a row that is there.
Beyond(rows, n, direction) ==
    {m \in DOMAIN rows :
        n \in DOMAIN rows /\ IF direction = "up" THEN rows[m] < rows[n] ELSE rows[m] > rows[n]}
Neighbours(rows, n, direction) ==
    {m \in Beyond(rows, n, direction) :
        \A k \in Beyond(rows, n, direction) :
            IF direction = "up" THEN rows[m] >= rows[k] ELSE rows[m] <= rows[k]}

ReadMove(r) ==
    LET v == request[r].version
        n == request[r].intent.node
    IN  /\ request[r].step = "read"
        /\ request[r].intent.op = "move"
        /\ IF Neighbours(nodes[v], n, request[r].intent.direction) = {}
           THEN Ends(r)
           ELSE \E m \in Neighbours(nodes[v], n, request[r].intent.direction) :
                   request' = [request EXCEPT ![r].step = "write",
                                 ![r].swap = Swapped([k \in {m, n} |-> nodes[v][k]], m, n)]
        /\ UNCHANGED <<planVars, slips>>

WriteMove(r) ==
    LET v == request[r].version
        swap == request[r].swap
    IN  /\ request[r].step = "write"
        /\ request[r].intent.op = "move"
        /\ nodes' = [nodes EXCEPT ![v] =
                       [n \in DOMAIN nodes[v] |->
                          IF n \in DOMAIN swap THEN swap[n] ELSE nodes[v][n]]]
        /\ Goes(r, "invalidate")
        /\ UNCHANGED <<lock, active, status, report, blank, frozen, slips>>

\* Variant: the number of rows, which a deletion lowers.
NextOrderByCount(rows) == Cardinality(DOMAIN rows) + 1
NextOrder(rows) == LastOrder(rows) + 1

\* A node is inserted last, with its payload.
WriteAdd(r) ==
    LET v == request[r].version
        n == RowId(v, request[r].intent.node)
    IN  /\ request[r].step = "write"
        /\ request[r].intent.op = "add"
        /\ nodes' = [nodes EXCEPT ![v] = [m \in DOMAIN @ \cup {n} |-> IF m = n THEN NextOrder(@) ELSE @[m]]]
        /\ Goes(r, "invalidate")
        /\ UNCHANGED <<lock, active, status, report, blank, frozen, slips>>

WriteDelete(r) ==
    LET v == request[r].version
        n == request[r].intent.node
    IN  /\ request[r].step = "write"
        /\ request[r].intent.op = "delete"
        /\ IF n \in DOMAIN nodes[v] THEN Goes(r, "invalidate") ELSE Ends(r)
        /\ nodes' = [nodes EXCEPT ![v] = Removed(@, n)]
        /\ blank' = [blank EXCEPT ![v] = @ \ {n}]
        /\ UNCHANGED <<lock, active, status, report, frozen, slips>>

\* invalidateValidation.
InvalidatedIfBad(v) == status[v] = "needs_fix" \* Variant: not if it passed.
Invalidated(v) == status[v] \in {"needs_fix", "publishable"}

Invalidate(r) ==
    LET v == request[r].version
    IN  /\ request[r].step = "invalidate"
        /\ Ends(r)
        /\ IF Invalidated(v)
           THEN /\ status' = [status EXCEPT ![v] = "draft"]
                /\ report' = [report EXCEPT ![v] = NoReport]
           ELSE UNCHANGED <<status, report>>
        /\ UNCHANGED <<lock, active, nodes, blank, frozen, slips>>

-----------------------------------------------------------------------------
(* Validation. *)

\* validateDraft reads the nodes and computes.
StartValidation(r) ==
    /\ request[r].step = "idle"
    /\ DraftVersion # None
    /\ DraftNodes # Empty
    /\ request' = [request EXCEPT ![r].step = "judge", ![r].version = DraftVersion,
                     ![r].start = DraftNodes]
    /\ UNCHANGED <<planVars, slips>>

\* A publication keeps the versions it supersedes locked until its commit.
Locked(r, v) == \E q \in Requests \ {r} : request[q].step = "commit" /\ v \in request[q].olds

\* The verdict of a validation is written to the version it read, whatever happened since.
Judge(r) ==
    LET v == request[r].version
        ok == ValidateRoute(request[r].start) = {}
    IN  /\ request[r].step = "judge"
        /\ ~Locked(r, v)
        /\ status' = [status EXCEPT ![v] = IF ok THEN "publishable" ELSE "needs_fix"]
        /\ report' = [report EXCEPT ![v] = [ok |-> ok, on |-> request[r].start]]
        /\ Slips(v, IF v \notin Editable THEN {"overruled"}
                    ELSE IF nodes[v] # request[r].start THEN {"outdated"} ELSE {})
        /\ Ends(r)
        /\ UNCHANGED <<lock, active, nodes, blank, frozen>>

-----------------------------------------------------------------------------
(* Publication and the next draft. *)

Publishable == {v \in Versions : status[v] = "publishable"}

\* The version is looked up after the token was spent; then checkRouteReadiness,
\* which may refuse for other reasons, too: materials, policies.
ReadPublish(r) ==
    /\ request[r].step = "read"
    /\ request[r].intent.op = "publish"
    /\ \/ Ends(r)
       \/ /\ Publishable # {}
          /\ LET v == Max(Publishable)
             IN  /\ report[v].ok
                 /\ blank[v] = {}
                 /\ request' = [request EXCEPT ![r].step = "supersede", ![r].version = v]
    /\ UNCHANGED <<planVars, slips>>

\* The transaction's first UPDATE finds the versions published when it starts,
\* waits for those that are locked, and drops what is not published any more.
SupersededNone == {} \* Variant: older versions are left as they are.
Superseded == {v \in Versions : status[v] = "published"}

Supersede(r) ==
    /\ request[r].step = "supersede"
    /\ request' = [request EXCEPT ![r].step = "wait", ![r].olds = Superseded]
    /\ UNCHANGED <<planVars, slips>>

ObtainLocks(r) ==
    /\ request[r].step = "wait"
    /\ ~ \E v \in request[r].olds : Locked(r, v)
    /\ request' = [request EXCEPT ![r].step = "commit", ![r].olds = @ \cap Superseded]
    /\ UNCHANGED <<planVars, slips>>

\* An edit of v that is accepted, or will be if nothing else is before.
Editing(q, v) ==
    /\ IsEdit(request[q].intent)
    /\ request[q].version = v
    /\ \/ request[q].step \in {"read", "write", "invalidate"}
       \/ request[q].step = "bump" /\ TokenMatches(q)

CommitPublish(r) ==
    LET v == request[r].version
    IN  /\ request[r].step = "commit"
        /\ ~Locked(r, v)
        /\ status' = [u \in Versions |->
                        IF u = v THEN "published"
                        ELSE IF u \in request[r].olds THEN "superseded" ELSE status[u]]
        /\ active' = v
        /\ frozen' = [frozen EXCEPT ![v] = IF @ = {} THEN {nodes[v]} ELSE @]
        /\ Slips(v, {slip \in {"edited", "withdrawn", "republished"} :
                       \/ slip = "edited" /\ \E q \in Requests : Editing(q, v)
                       \/ slip = "withdrawn" /\ status[v] \in {"draft", "needs_fix"}
                       \/ slip = "republished" /\ status[v] \in {"published", "superseded"}})
        /\ Ends(r)
        /\ UNCHANGED <<lock, report, nodes, blank>>

\* createDraftVersion checks that there is no draft, then inserts and copies.
StartDraft(r) ==
    /\ request[r].step = "idle"
    /\ active # None
    /\ DraftVersion = None
    /\ request' = [request EXCEPT ![r].step = "copy", ![r].version = active]
    /\ UNCHANGED <<planVars, slips>>

\* The rows get new ids; the copy leaves out the payloads.
CopyDraft(r) ==
    LET new == Max({v \in Versions : status[v] # "absent"}) + 1
        source == nodes[request[r].version]
        copy == [n \in {RowId(new, ItemOf(m)) : m \in DOMAIN source} |->
                    source[RowId(request[r].version, ItemOf(n))]]
    IN  /\ request[r].step = "copy"
        /\ new \in Versions
        /\ status' = [status EXCEPT ![new] = "draft"]
        /\ nodes' = [nodes EXCEPT ![new] = copy]
        /\ blank' = [blank EXCEPT ![new] = {n \in DOMAIN copy : ItemOf(n) \in NeedsPayload}]
        /\ Slips(new, IF Editable = {} THEN {} ELSE {"second"})
        /\ Ends(r)
        /\ UNCHANGED <<lock, active, report, frozen>>

\* The process or the connection dies; what was committed stays.
Die(r) ==
    /\ UnderWay(r)
    /\ Ends(r)
    /\ IF request[r].step = "invalidate" THEN Slips(request[r].version, {"cut off"}) ELSE UNCHANGED slips
    /\ UNCHANGED planVars

-----------------------------------------------------------------------------
Next ==
    \E r \in Requests :
        \/ OpenPage(r) \/ LeavePage(r)
        \/ \E intent \in Intents :
              CanIntend(r, intent) /\ Submit(r, intent)
        \/ Bump(r) \/ Refuse(r) \/ Reapply(r)
        \/ ReadMove(r) \/ WriteMove(r) \/ WriteAdd(r) \/ WriteDelete(r) \/ Invalidate(r)
        \/ StartValidation(r) \/ Judge(r)
        \/ ReadPublish(r) \/ Supersede(r) \/ ObtainLocks(r) \/ CommitPublish(r)
        \/ StartDraft(r) \/ CopyDraft(r)
        \/ Die(r)

Spec == Init /\ [][Next]_vars
-----------------------------------------------------------------------------
(* Properties. *)

\* An edit that is accepted was made on what is stored: on the draft, and on
\* the rows, that its page or the comparison showed.  This is what the token is
\* for, across every order of requests, deaths, validations and publications.
\* It takes a page that was read while no other request was between two of its
\* statements; of an edit whose increment, but not whose rows, were there when
\* the page was read, its reader is not told.
AcceptedEditsSawTheContents ==
    [][\A r \in Requests :
          Bump(r) /\ IsEdit(request[r].intent) /\ request[r].settled =>
              request[r].version = DraftVersion /\ request[r].page = DraftNodes]_vars

\* What is published is what was validated, can be taught as it is, and stays
\* that way, whatever edits, validations, publications and drafts overlap and
\* whichever of them die, unless one of five races was lost over that version:
\* an edit died after its rows and before the verdict was withdrawn ("cut off");
\* a verdict was stored about other rows than are there ("outdated") or about
\* what is no draft any more ("overruled"); it was published while an edit of
\* it was under way ("edited"), or after its verdict was withdrawn ("withdrawn").
PublishedAsValidated ==
    \A v \in Versions :
        slips[v] \cap {"cut off", "outdated", "overruled", "edited", "withdrawn"} = {} =>
            \A contents \in frozen[v] :
                /\ nodes[v] = contents
                /\ report[v].ok /\ report[v].on = contents
                /\ Teachable(contents)

\* The plan points at its one published version, and at most one version is
\* being edited besides, unless a verdict was stored about a version published
\* meanwhile ("overruled"), a publication went on with a version that another
\* one had published before ("republished"), or two drafts were begun at once
\* ("second").
ActiveIsPublished ==
    (\A v \in Versions : slips[v] \cap {"overruled", "republished", "second"} = {}) =>
        /\ {v \in Versions : status[v] = "published"} = {active} \ {None}
        /\ Cardinality(Editable) <= 1

\* An accepted edit does what the screen it was made on says it would: the
\* preview, and the promise that it can be applied, on the rows shown.  It takes
\* a page as above, no other increment before the edit has ended, and no two
\* rows of one sort order, as overlapping moves leave them.
EditsAreAsPreviewed ==
    \A r \in Requests :
        /\ request[r].step = "invalidate"
        /\ request[r].settled
        /\ lock = request[r].token + 1
        /\ IsInjective(request[r].start)
        => /\ ItemsInOrder(nodes[request[r].version])
                   = ItemsInOrder(ApplyIntent(request[r].start, request[r].intent))
           /\ ReapplyPossible(request[r].start, request[r].intent)

\* The comparison of a refused edit is empty only if the teacher saw the
\* nodes, in the order, that are stored now.
ConflictsAreShown ==
    \A r \in Requests :
        request[r].step = "conflict" /\ DiffRouteNodes(request[r].page, request[r].start) = {} =>
            InOrder(request[r].page) = InOrder(request[r].start)

\* "A published version is immutable" (routes/actions.ts:92).
PublishedIsImmutable == \A v \in Versions : \A contents \in frozen[v] : nodes[v] = contents

\* "Publication is only possible through the gate of validation"
\* (routes/actions.ts:93), whatever the race.
OnlyValidatedIsPublished ==
    \A v \in Versions : \A contents \in frozen[v] : report[v].ok /\ report[v].on = contents

\* "Nothing is overwritten silently" (routes/actions.ts:142), whatever was under
\* way when the page was read.
NothingIsOverwrittenSilently ==
    [][\A r \in Requests :
          Bump(r) /\ IsEdit(request[r].intent) => request[r].page = DraftNodes]_vars
=============================================================================
