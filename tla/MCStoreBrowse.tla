--------------------------- MODULE MCStoreBrowse ---------------------------
(* Three stores and two texts that overlap: a row may be of any of three lists. *)
EXTENDS StoreBrowse, TLC

CONSTANTS s1, s2, s3, t1, t2

MCStores == {s1, s2, s3}
MCTexts == {EmptyText, t1, t2}
MCMatching == (EmptyText :> {}) @@ (t1 :> {s1, s2}) @@ (t2 :> {s2, s3})
=============================================================================
