----------------------------- MODULE RequestUrl -----------------------------
(***************************************************************************)
(* What a mutation of the web front end invalidates in its GET cache       *)
(* (src/web/react/src/api/request.ts).  A request URL is the sequence of   *)
(* its segments, as split('/') gives them (a trailing slash is a last      *)
(* segment "").  Query parameters are left out: a mutation drops every     *)
(* page of a list at once.                                                 *)
(***************************************************************************)
EXTENDS Integers, Sequences

\* The last segments that resourceBase() cuts off, and the numbers it cuts next.
Verbs == {"create", "update", "delete", "restore", "scope", "skus", "migrate",
          "audit", "permanent", "submit", "shelf", "schedule", "duplicate"}
Numerals == {"1", "2"}

DropLast(url, S) ==
  IF url # <<>> /\ url[Len(url)] \in S THEN SubSeq(url, 1, Len(url) - 1) ELSE url

\* The path of the list a mutation belongs to.
ResourceBase(url) == DropLast(DropLast(url, Verbs), Numerals)

\* segment.startsWith(prefix), of the names in the URLs: everything begins with nothing, and a
\* name may begin with a shorter one.
Longer == {<<"promo", "promo-codes">>, <<"promo", "promo-dashboard">>,
           <<"refund", "refunds">>, <<"read", "read-all">>}
Begins(segment, prefix) == prefix \in {segment, ""} \/ <<prefix, segment>> \in Longer

\* key.startsWith(base): of strings, so the last segment of the base may be the beginning of
\* a longer name.
Covers(base, url) ==
  /\ Len(base) <= Len(url)
  /\ \A i \in 1..Len(base) :
       IF i = Len(base) THEN Begins(url[i], base[i]) ELSE url[i] = base[i]
=============================================================================
