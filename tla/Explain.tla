------------------------------- MODULE Explain -------------------------------
(***************************************************************************)
(* fyneui/explain.go: which class and severity an error of idunn is shown  *)
(* with. An error is the set of the sentinels errors.Is finds in it, so    *)
(* one that joins several may match several cases, and their order         *)
(* decides. The wording, and whether a retry is offered, are left out.     *)
(***************************************************************************)
EXTENDS SequencesExt

Nil == {}

Case(class, severity, sentinels) ==
  [class |-> class, severity |-> severity, sentinels |-> sentinels]

\* The cases that look at the transport and at the privileged helper, up to the
\* one that says the update was deferred.
CasesBefore ==
  <<Case("cancelled",              "info",    {"canceled", "deadline"}),
    Case("clock_skew",             "warning", {"expiry", "rollback"}),
    Case("time_floor",             "error",   {"floor"}),
    Case("network",                "warning", {"net"}),
    Case("elevation_declined",     "info",    {"elevate declined"}),
    Case("elevation_unsupported",  "error",   {"elevate unsupported"}),
    Case("elevation_request",      "error",   {"elevate request"}),
    Case("elevation_failed",       "error",   {"elevate helper"}),
    Case("prompt",                 "error",   {"prompt"}),
    Case("declined",               "info",    {"declined"})>>

Deferred == Case("deferred", "info",    {"deferred"})
Busy     == Case("busy",     "warning", {"busy"})

CasesAfter ==
  <<Case("check",                  "error",   {"check"}),
    Case("migrate",                "error",   {"migrate"}),
    Case("stale",                  "warning", {"stale"}),
    Case("policy",                 "error",   {"policy"}),
    Case("installer_refused",      "error",   {"refused"}),
    Case("config",                 "error",   {"config"}),
    Case("verify",                 "error",   {"verify", "trust"}),
    Case("resolve",                "error",   {"resolve"}),
    Case("permission",             "error",   {"permission"}),
    Case("disk",                   "error",   {"stage", "journal", "not exist", "exist"}),
    Case("launch",                 "warning", {"launch"})>>

\* A mutant of Cases: the lock that was held is diagnosed first.
CasesBusyFirst == CasesBefore \o <<Busy, Deferred>> \o CasesAfter

\* The chain of explain, in its order.
Cases == CasesBefore \o <<Deferred, Busy>> \o CasesAfter

Sentinels == UNION {Cases[i].sentinels : i \in DOMAIN Cases} \cup {"other"}

\* Explain: the first case one of whose sentinels the error carries.
Explained(err) ==
  LET i == SelectInSeq(Cases, LAMBDA c : c.sentinels \cap err # {})
  IN  IF err = Nil THEN Case("", "none", {})
      ELSE IF i = 0 THEN Case("unknown", "error", {})
      ELSE Cases[i]

=============================================================================
