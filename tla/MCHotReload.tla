----------------------------- MODULE MCHotReload -----------------------------
(***************************************************************************)
(* One reconciled provider, the auditor, and the logger, each of two       *)
(* forms; the configuration may also do without the auditor.               *)
(***************************************************************************)
EXTENDS HotReload

CONSTANTS audit, logger, one, two

MCProvider == {audit}

Of(a, l) == [n \in {audit, logger} |-> IF n = audit THEN a ELSE l]
MCStart == Of(one, one)
MCSettings == {MCStart, Of(two, one), Of(two, two), Of(Absent, one)}
=============================================================================
