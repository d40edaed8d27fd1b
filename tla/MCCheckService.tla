---------------------------- MODULE MCCheckService ----------------------------
(* Instances of CheckService for TLC. *)
EXTENDS CheckService

CONSTANTS c1, c2, k1, t1, t2, a, b, get

MCCalls   == {c1, c2}
MCOneCall == {c1}
MCNoCall  == {}
MCOneKey  == {k1}

MCSegments   == {t1, t2, a, b, get}
MCTenants    == {t1, t2}
MCOneTenant  == {t1}
(* Subjects with and without a colon; `get` is also a method.              *)
MCSubjects   == {<<a>>, <<b>>, <<a, b>>, <<a, get>>, <<a, get, b>>}
(* METHOD:path, and a resource without a colon.                            *)
MCResources  == {<<get, a>>, <<get, b>>, <<b>>}
MCNumbers    == {-2, 0, 1, 2}

(* The strategies, one of them spelled in capitals, and one that is none.  *)
MCSpellings  == Algorithm \cup {"CONCURRENCY", "other"}
MCLower      == [s \in MCSpellings |-> IF s = "CONCURRENCY" THEN "concurrency" ELSE s]
===============================================================================
