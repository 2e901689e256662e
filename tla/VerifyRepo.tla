----------------------------- MODULE VerifyRepo ------------------------------
(***************************************************************************)
(* packrun.Verify: a published repository is served over a loopback        *)
(* listener by a goroutine of its own, and resolved with the trust client  *)
(* into a fresh cache. One call after another.                             *)
(*                                                                         *)
(* The trust client, net/http and the file system are external: any step   *)
(* of theirs may fail. What Serve and Close do to a listener is net/http's *)
(* contract: Close closes a listener that is being served, and a Serve     *)
(* that comes after it closes its own and returns.                         *)
(***************************************************************************)
EXTENDS FiniteSetsExt, Integers

CONSTANTS MaxRoot,  \* the greatest number a root.json may bear
          Roots,    \* the numbers of those that may be there
          MaxFiles  \* bound of the model: the files of a release

ASSUME VerifyAssumption == MaxRoot \in Nat /\ Roots \subseteq 1 .. MaxRoot /\ MaxFiles \in Nat

VARIABLES at,       \* where Verify is, "idle" when nobody has called it
          roots,    \* the <n>.root.json in the repository
          anchor,   \* the root in use: Given, a number, or NoAnchor
          listener, \* "none", "open" or "closed"
          server,   \* the goroutine of Serve: "none", "starting", "serving", "gone"
          closing,  \* has srv.Close been called?
          cache,    \* the temporary directory: "none", "made", "gone", "left"
          files,    \* how many files the descriptor lists
          tried, resolved, \* how many of them the loop has been over, and has fetched
          ctxDone,  \* is the caller's context done?
          result    \* what the last call returned: "none", "ok", "verify", "ctx"

found == <<roots, anchor, files, tried, resolved>>
held == <<listener, server, closing, cache>>
vars == <<at, found, held, ctxDone, result>>

NoAnchor == 0
Given == -1

-----------------------------------------------------------------------------
\* An error before anything is held, with the server running, with the cache made.
Fails == at' = "idle" /\ result' = "verify"
FailsServing == at' = "close" /\ result' = "verify"
FailsCached == at' = "remove" /\ result' = "verify"

\* latestRoot: the numbers are sorted as numbers.
LatestRoot == Max(roots)

Call ==
  /\ at = "idle" /\ at' = "dirs"
  /\ roots' \in SUBSET Roots /\ anchor' \in {NoAnchor, Given}
  /\ files' = 0 /\ tried' = 0 /\ resolved' = 0
  /\ listener' = "none" /\ server' = "none" /\ closing' = FALSE /\ cache' = "none"
  /\ ctxDone' = FALSE /\ result' = "none"

\* The repository's directories are there, or not.
CheckDirs ==
  /\ at = "dirs"
  /\ Fails \/ (at' = "anchor" /\ UNCHANGED result)
  /\ UNCHANGED <<found, held, ctxDone>>

TakeAnchor ==
  /\ at = "anchor"
  /\ \/ /\ anchor = Given /\ at' = "listen" /\ UNCHANGED <<anchor, result>>
     \/ /\ anchor = NoAnchor /\ roots # {} /\ at' = "listen"
        /\ anchor' = LatestRoot /\ UNCHANGED result
     \/ /\ anchor = NoAnchor /\ Fails /\ UNCHANGED anchor
  /\ UNCHANGED <<roots, files, tried, resolved, held, ctxDone>>

\* The listener is open before the goroutine that serves it runs. Binding to a literal
\* address asks nothing of the context, which the client finds cancelled later.
Listen ==
  /\ at = "listen"
  /\ \/ /\ at' = "cache" /\ UNCHANGED result
        /\ listener' = "open" /\ server' = "starting"
     \/ Fails /\ UNCHANGED <<listener, server>>
  /\ UNCHANGED <<found, closing, cache, ctxDone>>

MakeCache ==
  /\ at = "cache"
  /\ \/ cache' = "made" /\ at' = "client" /\ UNCHANGED result
     \/ FailsServing /\ UNCHANGED cache
  /\ UNCHANGED <<found, listener, server, closing, ctxDone>>

\* trust.New asks nothing of the server; Refresh and LatestRelease do.
NewClient ==
  /\ at = "client"
  /\ FailsCached \/ (at' = "refresh" /\ UNCHANGED result)
  /\ UNCHANGED <<found, held, ctxDone>>

Refresh ==
  /\ at = "refresh"
  /\ FailsCached \/ (server = "serving" /\ at' = "latest" /\ UNCHANGED result)
  /\ UNCHANGED <<found, held, ctxDone>>

LatestRelease ==
  /\ at = "latest"
  /\ \/ server = "serving" /\ files' \in 0 .. MaxFiles /\ at' = "targets" /\ UNCHANGED result
     \/ FailsCached /\ UNCHANGED files
  /\ UNCHANGED <<roots, anchor, tried, resolved, held, ctxDone>>

\* A mutant of FetchTarget: a file that does not resolve is passed over.
FetchTargetLeniently ==
  /\ at = "targets" /\ tried < files
  /\ tried' = tried + 1
  /\ \/ server = "serving" /\ resolved' = resolved + 1
     \/ UNCHANGED resolved
  /\ UNCHANGED <<at, roots, anchor, files, held, ctxDone, result>>

\* Every file of the descriptor is fetched, one after another.
FetchTarget ==
  /\ at = "targets" /\ tried < files
  /\ tried' = tried + 1
  /\ \/ server = "serving" /\ resolved' = resolved + 1 /\ UNCHANGED <<at, result>>
     \/ FailsCached /\ UNCHANGED resolved
  /\ UNCHANGED <<roots, anchor, files, held, ctxDone>>

\* The context is asked once more when all is done.
Finish ==
  /\ at = "targets" /\ tried = files
  /\ at' = "remove" /\ result' = IF ctxDone THEN "ctx" ELSE "ok"
  /\ UNCHANGED <<found, held, ctxDone>>

\* The deferred calls, last one first. A cache that cannot be removed stays.
RemoveCache ==
  /\ at = "remove" /\ at' = "close"
  /\ cache' \in {"gone", "left"}
  /\ UNCHANGED <<found, listener, server, closing, ctxDone, result>>

\* A mutant of CloseServer: it waits for the server before it closes it.
CloseServerLate ==
  /\ at = "close" /\ server = "gone" /\ at' = "join"
  /\ closing' = TRUE
  /\ UNCHANGED <<found, listener, server, cache, ctxDone, result>>

CloseServer ==
  /\ at = "close" /\ at' = "join"
  /\ closing' = TRUE
  /\ listener' = IF server = "serving" THEN "closed" ELSE listener
  /\ UNCHANGED <<found, server, cache, ctxDone, result>>

\* A mutant of Join: the server is closed, not awaited.
JoinNobody ==
  /\ at = "join" /\ at' = "idle"
  /\ UNCHANGED <<found, held, ctxDone, result>>

\* <-done, and Verify returns.
Join ==
  /\ at = "join" /\ server = "gone" /\ at' = "idle"
  /\ UNCHANGED <<found, held, ctxDone, result>>

-----------------------------------------------------------------------------
\* srv.Serve: it begins, unless Close has come first; it ends when closed, or when
\* Accept fails. Either way the listener is closed before done is.
Serve ==
  /\ server = "starting"
  /\ IF closing THEN server' = "gone" /\ listener' = "closed"
     ELSE server' = "serving" /\ UNCHANGED listener
  /\ UNCHANGED <<at, found, closing, cache, ctxDone, result>>

ServeEnds ==
  /\ server = "serving"
  /\ server' = "gone" /\ listener' = "closed"
  /\ UNCHANGED <<at, found, closing, cache, ctxDone, result>>

CtxEnds ==
  /\ at # "idle" /\ ~ctxDone /\ ctxDone' = TRUE
  /\ UNCHANGED <<at, found, held, result>>

-----------------------------------------------------------------------------
Init == /\ at = "idle" /\ roots = {} /\ anchor = NoAnchor
        /\ files = 0 /\ tried = 0 /\ resolved = 0
        /\ listener = "none" /\ server = "none" /\ closing = FALSE /\ cache = "none"
        /\ ctxDone = FALSE /\ result = "none"

CallStep == \/ CheckDirs \/ TakeAnchor \/ Listen \/ MakeCache \/ NewClient \/ Refresh
            \/ LatestRelease \/ FetchTarget \/ Finish \/ RemoveCache \/ CloseServer \/ Join

Next == Call \/ CallStep \/ Serve \/ ServeEnds \/ CtxEnds

Spec == Init /\ [][Next]_vars

\* Goroutines that can go on do, and a server that was closed stops serving.
FairSpec == Spec /\ WF_vars(CallStep) /\ WF_vars(Serve) /\ WF_vars(closing /\ ServeEnds)

-----------------------------------------------------------------------------
\* However a verification ends, nothing of it is left when it has: no listener, no
\* goroutine, and no cache it did not try to remove, even when it is over before the
\* server's goroutine has run at all (verify.go Verify).
NothingLeftBehind ==
  at = "idle" => listener # "open" /\ server \in {"none", "gone"} /\ cache # "made"

\* A verification succeeds only if every file of the release resolved, and against
\* the anchor it was given or the newest root of the repository, the tenth after the
\* ninth (verify.go VerifyResult: "a repository that resolves a descriptor but cannot
\* produce its payloads is not published"; latestRoot).
SuccessIsComplete ==
  result = "ok" => /\ resolved = files
                   /\ anchor = Given \/ (anchor \in roots /\ \A n \in roots : n <= anchor)

\* Verify returns, whatever fails and whenever, and does not wait for a server that
\* never ran (verify.go Verify, its deferred Close and <-done).
VerifyReturns == at # "idle" ~> at = "idle"

=============================================================================
