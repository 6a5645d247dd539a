----------------------------- MODULE Changelog -----------------------------
(***************************************************************************)
(* The changelog (src/src/api/v2/dms.ts, src/src/changelog/store.ts,       *)
(* src/src/db/changelogStore.ts): curated entries, releases and Discord    *)
(* posts are written to changelog_entry; the older changelog_post, which   *)
(* posts are written to as well, is copied into it once per isolate.       *)
(* One id, that of a legacy row mapped to its slug, is contended for.      *)
(***************************************************************************)
EXTENDS Naturals, FiniteSets

CONSTANTS
    Entries,   \* POST /changelog/entry requests for the slug
    Releases,  \* POST /changelog/release requests with that id
    Posts      \* POST /changelog/post requests that rendered that id

VARIABLES
    entry,    \* the row of changelog_entry: who wrote it last, or "none"
    post,     \* whether changelog_post has the row
    isolate,  \* schemaReady and backfillSettled
    req,      \* what each request does next, and whether it saw no row
    answer,   \* what each request was answered
    embeds,   \* (history) requests whose embed Discord took
    wrote     \* (history) an upsert of the id was committed

logVars == <<entry, post, isolate, req, answer, embeds, wrote>>

Requests == Entries \cup Releases \cup Posts
Fresh == [schema |-> FALSE, backfill |-> FALSE]
At(step, created) == [step |-> step, created |-> created]
NoAnswer == [status |-> 0, created |-> FALSE]
Answer(status, created) == [status |-> status, created |-> created]

(* The seed of changelog_post: a legacy row may be there or not.            *)
Init ==
    /\ entry = "none" /\ post \in BOOLEAN
    /\ isolate = Fresh
    /\ req = [r \in Requests |-> At("idle", FALSE)]
    /\ answer = [r \in Requests |-> NoAnswer]
    /\ embeds = {} /\ wrote = FALSE

End(r, status, created) ==
    /\ req' = [req EXCEPT ![r] = At("done", FALSE)]
    /\ answer' = [answer EXCEPT ![r] = Answer(status, created)]
Go(r, step) == req' = [req EXCEPT ![r].step = step]

-----------------------------------------------------------------------------
(* The three endpoints check the body against the closed vocabularies; a    *)
(* refused body ends in 400 and touches nothing.                            *)
PostEntry(r) ==
    /\ r \in Entries /\ req[r].step = "idle"
    /\ Go(r, "ensure") \/ (req' = [req EXCEPT ![r].step = "done"])
    /\ UNCHANGED <<entry, post, isolate, answer, embeds, wrote>>
PostRelease(r) ==
    /\ r \in Releases /\ req[r].step = "idle"
    /\ Go(r, "ensure") \/ (req' = [req EXCEPT ![r].step = "done"])
    /\ UNCHANGED <<entry, post, isolate, answer, embeds, wrote>>

(* A post speaks first: 503 without a channel, 502 if Discord refuses; what *)
(* it tells the store after that never fails it.                            *)
PostPost(r) ==
    /\ r \in Posts /\ req[r].step = "idle"
    /\ \/ Go(r, "legacy") /\ embeds' = embeds \cup {r} /\ UNCHANGED answer
       \/ \E status \in {400, 502, 503} : End(r, status, FALSE) /\ UNCHANGED embeds
    /\ UNCHANGED <<entry, post, isolate, wrote>>

(* recordChangelogPost: the legacy row, best effort, then the upsert.       *)
recordChangelogPost(r) ==
    /\ req[r].step = "legacy"
    /\ post' \in {post, TRUE}
    /\ Go(r, "ensure")
    /\ UNCHANGED <<entry, isolate, answer, embeds, wrote>>

(* ensureChangelogSchema, pruneDuplicateChangelogPosts: of two legacy rows  *)
(* of one title the older goes.                                             *)
pruneDuplicateChangelogPosts ==
    /\ post /\ post' = FALSE
    /\ UNCHANGED <<entry, isolate, req, answer, embeds, wrote>>

(* Who waits for an upsert hears of its failure, unless it is a post.       *)
UpsertFails(r) == IF r \in Posts THEN End(r, 200, FALSE) ELSE End(r, 502, FALSE)

(* Mutant: the backfill replaces what is there.                             *)
BackfillReplaces == IF post THEN "backfill" ELSE entry

(* BACKFILL_SQL: INSERT OR IGNORE of the legacy rows.                       *)
Backfill == IF post /\ entry = "none" THEN "backfill" ELSE entry

(* ensureChangelogEntrySchema: tables, then the backfill, whose failure is  *)
(* logged and not tried again while the isolate lives.                      *)
ensureChangelogEntrySchema(r) ==
    /\ req[r].step = "ensure"
    /\ \/ isolate.schema /\ Go(r, "select") /\ UNCHANGED <<entry, isolate, answer>>
       \/ ~isolate.schema /\ UpsertFails(r) /\ UNCHANGED <<entry, isolate>>
       \/ /\ ~isolate.schema
          /\ \/ entry' = Backfill /\ isolate' = [schema |-> TRUE, backfill |-> TRUE]
             \/ UNCHANGED entry /\ isolate' = [isolate EXCEPT !.schema = TRUE]
          /\ Go(r, "select")
          /\ UNCHANGED answer
    /\ UNCHANGED <<post, embeds, wrote>>

(* upsertChangelogEntry: look for the id, then INSERT or UPDATE by that.    *)
upsertSelect(r) ==
    /\ req[r].step = "select"
    /\ \/ req' = [req EXCEPT ![r] = At("write", entry = "none")] /\ UNCHANGED answer
       \/ UpsertFails(r)
    /\ UNCHANGED <<entry, post, isolate, embeds, wrote>>

(* The INSERT of an id that is there by now breaks the primary key.         *)
upsertWrite(r) ==
    /\ req[r].step = "write"
    /\ \/ /\ ~req[r].created \/ entry = "none"
          /\ entry' = "upsert" /\ wrote' = TRUE
          /\ IF r \in Entries THEN Go(r, "notify") /\ UNCHANGED answer
             ELSE End(r, 200, req[r].created)
       \/ UpsertFails(r) /\ UNCHANGED <<entry, wrote>>
    /\ UNCHANGED <<post, isolate, embeds>>

(* A dry run shows the embed; a notify posts it, and says so only if        *)
(* Discord answered.                                                        *)
Notify(r) ==
    /\ req[r].step = "notify"
    /\ \/ End(r, 200, req[r].created) /\ embeds' \in {embeds, embeds \cup {r}}
       \/ \E status \in {502, 503} : End(r, status, FALSE)
            /\ embeds' \in (IF status = 502 THEN {embeds, embeds \cup {r}} ELSE {embeds})
    /\ UNCHANGED <<entry, post, isolate, wrote>>

(* Another isolate takes over: nothing is remembered of the schema.         *)
NewIsolate ==
    /\ isolate # Fresh
    /\ isolate' = Fresh
    /\ UNCHANGED <<entry, post, req, answer, embeds, wrote>>

Next ==
    \/ \E r \in Requests :
          \/ PostEntry(r) \/ PostRelease(r) \/ PostPost(r) \/ recordChangelogPost(r)
          \/ ensureChangelogEntrySchema(r) \/ upsertSelect(r) \/ upsertWrite(r)
          \/ Notify(r)
    \/ pruneDuplicateChangelogPosts \/ NewIsolate

Spec == Init /\ [][Next]_logVars

-----------------------------------------------------------------------------
LogTypeOK ==
    /\ entry \in {"none", "backfill", "upsert"} /\ post \in BOOLEAN
    /\ isolate \in [schema : BOOLEAN, backfill : BOOLEAN]
    /\ req \in [Requests -> [step : {"idle", "legacy", "ensure", "select", "write", "notify", "done"},
                             created : BOOLEAN]]
    /\ answer \in [Requests -> [status : {0, 200, 400, 502, 503}, created : BOOLEAN]]
    /\ embeds \subseteq Requests /\ wrote \in BOOLEAN

(* One id, one entry, for all three writers and the backfill of every new   *)
(* isolate: no two requests are told that they created it, what a request   *)
(* committed is not taken back by the copy of the legacy row, and the       *)
(* permalink of an embed that a curated entry posted leads to a row.        *)
EntryIsKept ==
    /\ Cardinality({r \in Requests : answer[r].created}) <= 1
    /\ wrote => entry = "upsert"
    /\ embeds \cap Entries # {} => entry # "none"
=============================================================================
