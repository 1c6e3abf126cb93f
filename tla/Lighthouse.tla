----------------------------- MODULE Lighthouse -----------------------------
(***************************************************************************)
(* src/scripts/lighthouse_auth.py: start Chrome, wait for its DevTools     *)
(* port, open a CDP session that registers a localStorage script for new  *)
(* documents and navigates, close the session after one second, run       *)
(* Lighthouse against the same Chrome, and stop Chrome in `finally`.       *)
(*                                                                         *)
(* Two processes run at once: the script, and Chrome.  Chrome starts when  *)
(* it starts, may crash, handles the CDP commands of the session in the    *)
(* order they were sent, commits a navigation some time after it began,   *)
(* and on SIGTERM exits or does not.  Time counts the script's 0.2 s       *)
(* polling sleeps; the one-second sleep of the session is a step that may *)
(* come before or after any of Chrome's.                                   *)
(***************************************************************************)
EXTENDS Naturals, Sequences

CONSTANTS
    Timeout   \* timeout_s of wait_for_debug_port, in 0.2 s polls

ASSUME TimeoutAssumption == Timeout \in Nat

\* The CDP commands of lines 46-61, in the order send() writes them.
Commands == <<"Page.enable", "Runtime.enable",
              "Page.addScriptToEvaluateOnNewDocument", "Page.navigate">>

CommandSet == {Commands[j] : j \in 1..Len(Commands)}

VARIABLES
    pc,          \* the next step of main
    keepChrome,  \* args.keep_chrome
    chrome,      \* "none", "starting", "up", "terminating" or "dead"
    clock,       \* polls of wait_for_debug_port so far
    lastErr,     \* last_err: "None" or "refused"
    session,     \* the CDP session: "none", "open", "closed" (by the
                 \* script) or "detached" (by Chrome)
    queue,       \* commands sent and not yet handled by Chrome
    registered,  \* the localStorage script is registered in the session
    nav,         \* the navigation of Page.navigate: "none", "pending", "committed"
    storage,     \* the token is in the page origin's localStorage
    audited,     \* what Lighthouse audited: "no", "authed", "anon", "failed"
    outcome      \* main: "none", "returned" or "raised"

vars == <<pc, keepChrome, chrome, clock, lastErr, session, queue, registered,
          nav, storage, audited, outcome>>

chromeVars == <<chrome, queue, registered, nav, storage>>

Alive == chrome \in {"starting", "up", "terminating"}

TypeOK ==
    /\ pc \in {"popen", "poll", "inject", "sleep", "lighthouse", "cleanup",
               "wait", "exited"}
    /\ keepChrome \in BOOLEAN
    /\ chrome \in {"none", "starting", "up", "terminating", "dead"}
    /\ clock \in 0..Timeout
    /\ lastErr \in {"None", "refused"}
    /\ session \in {"none", "open", "closed", "detached"}
    /\ queue \in Seq(CommandSet)
    /\ registered \in BOOLEAN /\ storage \in BOOLEAN
    /\ nav \in {"none", "pending", "committed"}
    /\ audited \in {"no", "authed", "anon", "failed"}
    /\ outcome \in {"none", "returned", "raised"}

\* The default --user-data-dir (line 91) is a fixed folder under /tmp that
\* outlives a run, so the page origin's localStorage may already hold the
\* token an earlier run stored, or may be fresh.
Init ==
    /\ pc = "popen"
    /\ keepChrome \in BOOLEAN
    /\ chrome = "none"
    /\ clock = 0
    /\ lastErr = "None"
    /\ session = "none"
    /\ queue = <<>>
    /\ registered = FALSE /\ nav = "none" /\ storage \in BOOLEAN
    /\ audited = "no"
    /\ outcome = "none"

\* An exception leaves the try block of lines 108-111 for its finally.
Raise == pc' = "cleanup" /\ outcome' = "raised"

-----------------------------------------------------------------------------
(* The script.                                                             *)

\* subprocess.Popen(chrome_cmd) (line 107).  A missing binary raises before
\* the try block, so nothing is cleaned up.
Popen ==
    /\ pc = "popen"
    /\ \/ chrome' = "starting" /\ pc' = "poll" /\ UNCHANGED outcome
       \/ pc' = "exited" /\ outcome' = "raised" /\ UNCHANGED chrome
    /\ UNCHANGED <<keepChrome, clock, lastErr, session, queue, registered, nav,
                   storage, audited>>

\* One round of the loop of wait_for_debug_port (lines 21-30): past the
\* deadline raise; a DevTools port listing a page returns its URL; a
\* refused connection is remembered, a port that lists no page yet is not;
\* either sleeps 0.2 s.
Poll ==
    /\ pc = "poll"
    /\ IF clock >= Timeout THEN Raise /\ UNCHANGED <<clock, lastErr>>
       ELSE IF chrome = "up" THEN pc' = "inject" /\ UNCHANGED <<outcome, clock, lastErr>>
       ELSE /\ clock' = clock + 1
            /\ lastErr' \in IF chrome = "starting" THEN {lastErr, "refused"}
                                                ELSE {"refused"}
            /\ UNCHANGED <<pc, outcome>>
    /\ UNCHANGED <<keepChrome, chrome, session, queue, registered, nav, storage,
                   audited>>

\* inject_local_storage up to its sleep (lines 35-61): connect, then write
\* the four commands without waiting for any reply.  The script always
\* sets apiToken, a required argument.  A connection to a Chrome that is
\* gone raises.
Inject ==
    /\ pc = "inject"
    /\ IF chrome = "up"
         THEN /\ session' = "open" /\ queue' = Commands
              /\ pc' = "sleep" /\ UNCHANGED outcome
         ELSE Raise /\ UNCHANGED <<session, queue>>
    /\ UNCHANGED <<keepChrome, chrome, clock, lastErr, registered, nav, storage,
                   audited>>

\* await asyncio.sleep(1) ends and `async with` closes the websocket
\* (lines 62, 35).  The close frame follows the four commands on the
\* socket, so Chrome still reads them; it detaches the session after them
\* (Detach).
CloseSession ==
    /\ pc = "sleep"
    /\ session' = "closed"
    /\ pc' = "lighthouse"
    /\ UNCHANGED <<keepChrome, chromeVars, clock, lastErr, nav, audited,
                   outcome>>

\* run_lighthouse (lines 65-80, 111): Lighthouse loads the URL in the same
\* Chrome, keeping its storage (--disable-storage-reset); main returns its
\* exit code, so a failed audit is still a return.
RunLighthouse ==
    /\ pc = "lighthouse"
    /\ audited' = CASE chrome # "up" -> "failed"
                    [] storage       -> "authed"
                    [] OTHER         -> "anon"
    /\ pc' = "cleanup" /\ outcome' = "returned"
    /\ UNCHANGED <<keepChrome, chromeVars, clock, lastErr, session>>

\* finally (lines 112-114): unless --keep-chrome, send SIGTERM.
Cleanup ==
    /\ pc = "cleanup"
    /\ IF keepChrome
         THEN pc' = "exited" /\ UNCHANGED chrome
         ELSE /\ pc' = "wait"
              /\ chrome' = IF chrome \in {"starting", "up"} THEN "terminating" ELSE chrome
    /\ UNCHANGED <<keepChrome, clock, lastErr, session, queue, registered, nav,
                   storage, audited, outcome>>

\* proc.wait(timeout=5) returns: Chrome has exited (line 116).
WaitReturns ==
    /\ pc = "wait"
    /\ ~Alive
    /\ pc' = "exited"
    /\ UNCHANGED <<keepChrome, chromeVars, clock, lastErr, session, audited,
                   outcome>>

\* Mutant of WaitTimesOut: proc.wait() without a timeout never gives up.
WaitNoTimeout == FALSE

\* Mutant of WaitTimesOut: the TimeoutExpired is swallowed without a kill.
WaitTimesOutNoKill ==
    /\ pc = "wait"
    /\ Alive
    /\ pc' = "exited"
    /\ UNCHANGED <<keepChrome, chromeVars, clock, lastErr, session, audited,
                   outcome>>

\* proc.wait(timeout=5) times out with Chrome still running: kill it and
\* wait for it (lines 117-119).
WaitTimesOut ==
    /\ pc = "wait"
    /\ Alive
    /\ chrome' = "dead" /\ queue' = <<>> /\ registered' = FALSE
    /\ pc' = "exited"
    /\ UNCHANGED <<keepChrome, nav, storage, clock, lastErr, session, audited,
                   outcome>>

-----------------------------------------------------------------------------
(* Chrome.                                                                 *)

\* The DevTools port is up and lists the about:blank page.
ChromeUp ==
    /\ chrome = "starting"
    /\ chrome' = "up"
    /\ UNCHANGED <<pc, keepChrome, clock, lastErr, session, queue, registered,
                   nav, storage, audited, outcome>>

\* Chrome handles the next command of the session.
HandleCommand ==
    /\ chrome = "up"
    /\ queue # <<>>
    /\ registered' = (registered \/ Head(queue) = "Page.addScriptToEvaluateOnNewDocument")
    /\ nav' = IF Head(queue) = "Page.navigate" THEN "pending" ELSE nav
    /\ queue' = Tail(queue)
    /\ UNCHANGED <<pc, keepChrome, chrome, clock, lastErr, session, storage,
                   audited, outcome>>

\* Chrome reads the close frame after the commands before it and detaches
\* the session, removing the scripts it registered for new documents.
Detach ==
    /\ chrome = "up"
    /\ session = "closed"
    /\ queue = <<>>
    /\ session' = "detached"
    /\ registered' = FALSE
    /\ UNCHANGED <<pc, keepChrome, chrome, clock, lastErr, queue, nav, storage,
                   audited, outcome>>

\* The navigation commits its new document, which runs the scripts
\* registered for new documents at that moment.
Commit ==
    /\ chrome = "up"
    /\ nav = "pending"
    /\ nav' = "committed"
    /\ storage' = (storage \/ registered)
    /\ UNCHANGED <<pc, keepChrome, chrome, clock, lastErr, session, queue,
                   registered, audited, outcome>>

\* Chrome crashes, or exits on SIGTERM.
ChromeExits ==
    /\ Alive
    /\ chrome' = "dead"
    /\ queue' = <<>> /\ registered' = FALSE
    /\ UNCHANGED <<pc, keepChrome, clock, lastErr, session, nav, storage,
                   audited, outcome>>

Script ==
    \/ Popen \/ Poll \/ Inject \/ CloseSession \/ RunLighthouse \/ Cleanup
    \/ WaitReturns \/ WaitTimesOut

ChromeSteps == ChromeUp \/ HandleCommand \/ Detach \/ Commit \/ ChromeExits

Next == Script \/ ChromeSteps

\* The script is one thread that always takes its next step; Chrome owes it
\* nothing: it may never start, never handle a command, ignore SIGTERM.
Spec == Init /\ [][Next]_vars /\ WF_vars(Script)

-----------------------------------------------------------------------------
(***************************************************************************)
(* Properties.                                                             *)
(***************************************************************************)

\* Unless --keep-chrome, the Chrome the script started is gone when the
\* script exits, whether main returned or raised and even when Chrome
\* ignores SIGTERM (the finally of lines 112-119).
ChromeStoppedOnExit ==
    pc = "exited" /\ ~keepChrome => ~Alive

\* The script always exits: the DevTools wait has a deadline and the
\* cleanup gives up waiting on a Chrome that ignores SIGTERM.
ScriptEnds == <>(pc = "exited")

\* Lighthouse never audits the page without the token the script was given
\* (the script's purpose, line 84: "Run Lighthouse with localStorage
\* preloaded for auth").
AuditedWithToken == audited # "anon"
=============================================================================
