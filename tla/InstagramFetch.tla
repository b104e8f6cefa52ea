---------------------------- MODULE InstagramFetch ----------------------------
(***************************************************************************)
(* How a poll of the Instagram monitor reads an account: by the private    *)
(* endpoints, request by request (fetcher.ts), or through a browser that   *)
(* is kept alive between polls (browser-fetcher.ts), in                    *)
(* src/capabilities/instagram_monitor.                                     *)
(*                                                                         *)
(* What InstagramGates takes for granted about one poll, the requests it   *)
(* is charged, its outcome and the hints it leaves, is worked out here.    *)
(* Polls come one after another; the timer that closes an idle browser,    *)
(* operators and restarts come at any time.                                *)
(***************************************************************************)
EXTENDS Naturals, FiniteSets

CONSTANTS
  MaxReads,     \* bound: polls
  MaxNudges,    \* bound: commands of operators
  MaxReboots    \* bound: restarts

VARIABLES
  source,    \* IG_FETCH_MODE, and whether there is a session: "api", "public"
             \* or "browser"
  hints,     \* the account's row: ig_pk and prefer_username_feed
  place,     \* where the poll is
  calls,     \* requests the poll was charged (onRequest)
  wire,      \* requests the poll made
  result,    \* how the last poll ended, and what it began from
  chromium,  \* the browsers: alive, browser, context, the page's, the idle timer
  found,     \* history: lookups that gave the id
  strays,    \* history: browsers whose setting up failed
  ordered,   \* an operator's command came during the poll
  reads, nudges, reboots

thePoll == <<place, calls, wire, result>>
ends == <<reads, nudges, reboots>>
fetchPast == <<found, strays, ordered>>
fetchVars == <<source, hints, thePoll, chromium, fetchPast, ends>>

Sources == {"api", "public", "browser"}
NoHints == [pk |-> FALSE, byName |-> FALSE]
NoResult == [out |-> "none", calls |-> 0, wire |-> 0, before |-> NoHints,
             after |-> NoHints]
NoBrowser == [alive |-> {}, browser |-> 0, context |-> 0, page |-> 0, idle |-> FALSE]

FetchInit ==
  /\ source \in Sources /\ hints = NoHints
  /\ place = "idle" /\ calls = 0 /\ wire = 0 /\ result = NoResult
  /\ chromium = NoBrowser /\ found = 0 /\ strays = 0 /\ ordered = FALSE
  /\ reads = 0 /\ nudges = 0 /\ reboots = 0

-----------------------------------------------------------------------------
(* The answers of the private endpoints.                                   *)

\* What a body shows: a plea to slow down, a page, a challenge of the session,
\* login_required, a schema that is gone, require_login, broken JSON, the data.
Marks == {"slow", "html", "challenge", "login", "schema", "require", "broken", "data"}
Responses == [status : {200, 400, 401, 403, 429, 500}, mark : Marks]

Throttled(r) == r.status = 429 \/ r.mark = "slow"

\* detectAuthBlock and sessionLevel: of the refusals only a challenge is the
\* session's, a plain 401 or login_required is the account's.
AuthBlock(r) ==
  IF r.status \in {401, 403} THEN "account"
  ELSE IF r.status # 400 THEN "none"
  ELSE IF r.mark \in {"challenge", "require"} THEN "session"
  ELSE IF r.mark = "login" THEN "account" ELSE "none"

HardBlock(r) == r.status = 400 /\ r.mark = "schema"

\* The body of a 200: posts or the id, or it is no JSON or asks for a login.
Parsed(r) ==
  IF r.mark = "broken" THEN "unexpected"
  ELSE IF r.mark = "require" THEN "session"
  ELSE "ok"

Class(r) ==
  IF Throttled(r) THEN "rate"
  ELSE IF r.mark = "html" THEN "html"
  ELSE IF r.status = 200 THEN Parsed(r)
  ELSE IF AuthBlock(r) # "none" THEN AuthBlock(r)
  ELSE IF HardBlock(r) THEN "hard"
  ELSE "unexpected"

\* ... or the connection fails. The lookup needs the id in its data.
FeedAnswers == {Class(r) : r \in Responses} \cup {"unexpected"}
LookupAnswers == FeedAnswers

-----------------------------------------------------------------------------
(* One poll over the private endpoints.                                    *)

Rest == UNCHANGED <<source, chromium, strays, nudges, reboots>>

\* A request: it is charged as it goes out.
Charge == calls' = calls + 1 /\ wire' = wire + 1

\* How the poll ended, and from and with which hints.
Ends(out) ==
  /\ place' = "idle"
  /\ result' = [result EXCEPT !.out = out, !.calls = calls', !.wire = wire',
                              !.after = hints']
  /\ ordered' = ordered

BeginRead ==
  /\ place = "idle" /\ reads < MaxReads /\ reads' = reads + 1
  /\ place' = CASE source = "api" -> "warming"
             [] source = "public" -> "profile"
             [] source = "browser" -> "context"
  /\ calls' = 0 /\ wire' = 0 /\ ordered' = FALSE
  /\ result' = [NoResult EXCEPT !.out = "running", !.before = hints]
  /\ UNCHANGED <<hints, found>> /\ Rest

\* The profile page, as a browser would open it, always (the capability asks for
\* it with probability 1): only the shell of a lost session ends the poll, whatever
\* else comes or fails is left to the real request.
WarmUp ==
  /\ place = "warming" /\ Charge
  /\ UNCHANGED <<hints, found, reads>> /\ Rest
  /\ \/ Ends("session")
     \/ /\ place' = IF hints.byName THEN "named"
                    ELSE IF hints.pk THEN "feed" ELSE "lookup"
        /\ UNCHANGED <<result, ordered>>

\* Altered: the answer is kept for this poll only.
KeepsNoId == hints
KeepsId == [hints EXCEPT !.pk = TRUE, !.byName = FALSE]

\* resolvePk: an id is kept at once; a schema that is gone leaves the feed by
\* name to try.
Lookup ==
  /\ place = "lookup" /\ Charge
  /\ UNCHANGED reads /\ Rest
  /\ \E out \in LookupAnswers :
       /\ hints' = IF out = "ok" THEN KeepsId ELSE hints
       /\ found' = IF out = "ok" THEN found + 1 ELSE found
       /\ IF out \in {"ok", "hard"}
          THEN /\ place' = IF out = "ok" THEN "feed" ELSE "fallback"
               /\ UNCHANGED <<result, ordered>>
          ELSE Ends(out)

\* The feed; without a session the public profile, whose refusals say nothing of
\* a session.
Feed ==
  /\ place \in {"feed", "named"} /\ Charge
  /\ UNCHANGED <<hints, found, reads>> /\ Rest
  /\ \E out \in FeedAnswers : Ends(out)

PublicProfile ==
  /\ place = "profile" /\ Charge
  /\ UNCHANGED <<hints, found, reads>> /\ Rest
  /\ \E out \in {"ok", "rate", "unexpected"} : Ends(out)

\* engageUsernameFeed: a failure of its own is the lookup's unless it says
\* something about the session or its pace.
Fallback ==
  /\ place = "fallback" /\ Charge
  /\ UNCHANGED <<found, reads>> /\ Rest
  /\ \E out \in FeedAnswers :
       /\ hints' = IF out = "ok" THEN [hints EXCEPT !.byName = TRUE] ELSE hints
       /\ Ends(IF out = "unexpected" THEN "hard" ELSE out)

-----------------------------------------------------------------------------
(* One poll through the browser.                                           *)

Alive(b) == b \in chromium.alive
BrowserRest == UNCHANGED <<source, hints, found, reads, nudges, reboots>>
Stays == UNCHANGED <<result, ordered>>

\* A poll arms the timer anew when it is over; it is not cancelled when one
\* begins.
Armed(c) == [c EXCEPT !.page = 0, !.idle = TRUE]
BrowserEnds(out, c) ==
  chromium' = Armed(c) /\ UNCHANGED <<calls, wire>> /\ Ends(out)

\* ensureContext: the context that is there, or a browser of its own.
EnsureContext ==
  /\ BrowserRest /\ place = "context"
  /\ \/ /\ chromium.context # 0 /\ Alive(chromium.browser)
        /\ place' = "page" /\ UNCHANGED <<chromium, strays, calls, wire>> /\ Stays
     \/ /\ ~(chromium.context # 0 /\ Alive(chromium.browser))
        /\ \/ place' = "launching" /\ UNCHANGED <<chromium, strays, calls, wire>> /\ Stays
           \/ UNCHANGED strays /\ BrowserEnds("unexpected", chromium)

\* It is none of the browsers that run, nor the one of a context left from before.
Launch ==
  /\ BrowserRest /\ place = "launching"
  /\ LET taken == chromium.alive \cup {chromium.context}
         b == CHOOSE n \in 1..(Cardinality(chromium.alive) + 2) : n \notin taken
     IN  chromium' = [chromium EXCEPT !.alive = @ \cup {b}, !.browser = b]
  /\ place' = "setup"
  /\ UNCHANGED <<strays, calls, wire>> /\ Stays

\* Context, script and cookies: if one fails the browser is running but nobody
\* uses it again. The browser may have been closed meanwhile.
SetUp ==
  /\ BrowserRest /\ place = "setup"
  /\ \/ /\ Alive(chromium.browser)
        /\ chromium' = [chromium EXCEPT !.context = chromium.browser]
        /\ place' = "page" /\ UNCHANGED <<strays, calls, wire>> /\ Stays
     \/ /\ strays' = strays + IF Alive(chromium.browser) THEN 1 ELSE 0
        /\ BrowserEnds("unexpected", chromium)

NewPage ==
  /\ BrowserRest /\ place = "page"
  /\ \/ /\ chromium.context # 0 /\ Alive(chromium.context)
        /\ chromium' = [chromium EXCEPT !.page = chromium.context]
        /\ place' = "loading" /\ UNCHANGED <<calls, wire>> /\ Stays
     \/ BrowserEnds("unexpected", chromium)
  /\ UNCHANGED strays

\* Two requests are charged once the page has landed; a navigation that fails is
\* charged nothing.
Load ==
  /\ BrowserRest /\ place = "loading" /\ wire' = wire + 1
  /\ \/ /\ Alive(chromium.page) /\ place' = "timeline" /\ calls' = calls + 2
        /\ UNCHANGED chromium /\ Stays
     \/ chromium' = Armed(chromium) /\ UNCHANGED calls /\ Ends("unexpected")
  /\ UNCHANGED strays

\* The page's own request brought the posts, or nothing came in time: the page
\* shows that the session was lost, or it does not.
Timeline ==
  /\ BrowserRest /\ place = "timeline"
  /\ \E out \in IF Alive(chromium.page) THEN {"ok", "session", "unexpected"}
                ELSE {"session", "unexpected"} :
       BrowserEnds(out, chromium)
  /\ UNCHANGED strays

\* dispose: the idle timer closes the browser, whatever is using it.
BrowserClosed == [chromium EXCEPT !.alive = @ \ {chromium.browser},
                             !.browser = 0, !.context = 0, !.idle = FALSE]
IdleShutdown ==
  /\ chromium.idle /\ chromium' = BrowserClosed
  /\ UNCHANGED <<source, hints, thePoll, fetchPast, ends>>

BrowserCrashes ==
  /\ chromium.browser # 0 /\ Alive(chromium.browser) /\ reboots < MaxReboots
  /\ reboots' = reboots + 1
  /\ chromium' = [chromium EXCEPT !.alive = @ \ {chromium.browser}]
  /\ UNCHANGED <<source, hints, thePoll, fetchPast, reads, nudges>>

-----------------------------------------------------------------------------
(* Operators and restarts.                                                 *)

\* force_poll, the end of a pause and a reset: the lookup is tried again.
OrderedAgain ==
  /\ nudges < MaxNudges /\ nudges' = nudges + 1
  /\ hints' = [hints EXCEPT !.byName = FALSE]
  /\ ordered' = (ordered \/ place # "idle")
  /\ UNCHANGED <<source, thePoll, chromium, found, strays, reads, reboots>>

\* The hints are in the database; the browsers end with the process.
RebootFetcher ==
  /\ reboots < MaxReboots /\ reboots' = reboots + 1
  /\ place' = "idle" /\ calls' = 0 /\ wire' = 0 /\ result' = NoResult
  /\ chromium' = NoBrowser /\ strays' = 0 /\ ordered' = FALSE
  /\ UNCHANGED <<source, hints, found, reads, nudges>>

FetchNext ==
  \/ BeginRead \/ WarmUp \/ Lookup \/ Feed \/ PublicProfile \/ Fallback
  \/ EnsureContext \/ Launch \/ SetUp \/ NewPage \/ Load \/ Timeline
  \/ IdleShutdown \/ BrowserCrashes \/ OrderedAgain \/ RebootFetcher

FetchSpec == FetchInit /\ [][FetchNext]_fetchVars

-----------------------------------------------------------------------------
(* Properties.                                                             *)

Done == place = "idle" /\ result.out \notin {"none", "running"}
Known(h) == h.pk \/ h.byName

\* What a poll costs and leaves is what the gates reckon with: at most three
\* requests and, over the private endpoints, all of them charged; a deterministic
\* failure costs the account a strike only if nothing that concerns the session
\* came with it, from a lookup that was needed or a feed that was known; a new
\* hint comes of a lookup that was asked, and no failure takes one away
\* (fetchRecentPosts, engageUsernameFeed).
AsReckoned ==
  Done /\ ~ordered =>
    /\ result.calls <= 3 /\ (source = "api" => result.wire = result.calls)
    /\ result.out \in {"hard", "ok"} /\ source = "api" =>
         result.calls = IF Known(result.before) THEN 2 ELSE 3
    /\ result.out = "ok" /\ source = "api" => Known(result.after)
    /\ Known(result.before) => result.after = result.before
    /\ result.after.byName /\ ~result.before.byName => result.out = "ok"

\* The id of an account is found once: whatever fails after it, restarts and
\* operators included, no later poll asks for it again.
IdFoundOnce == found <= 1

\* Beside the browser in use only those run on whose setting up failed, and a
\* browser is running only for a poll or until the timer that is armed closes it.
BrowsersAccounted ==
  /\ Cardinality(chromium.alive \ {chromium.browser}) <= strays
  /\ place = "idle" /\ chromium.browser # 0 => chromium.idle

\* All three, of one fetcher.
ReadsAccounted == AsReckoned /\ IdFoundOnce /\ BrowsersAccounted
=============================================================================
