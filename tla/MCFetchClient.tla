---------------------------- MODULE MCFetchClient ----------------------------
(***************************************************************************)
(* A small web: page and mirror redirect to each other or serve a body,    *)
(* and intra is served by a private endpoint that is page's own.  ftp is a *)
(* URL of another scheme.                                                  *)
(***************************************************************************)
EXTENDS FetchClient

CONSTANTS page, mirror, intra, ftp, pub, alt, own

MCUrls == {page, mirror, intra, ftp}
MCFetchable == {page, mirror, intra}
MCSocketAddrs == {pub, alt, own}

MCDns ==
  [u \in MCFetchable |->
     CASE u = page   -> {<<own>>, <<pub, alt>>}
       [] u = mirror -> {<<alt>>}
       [] u = intra  -> {<<own>>}]

Redirect(u) == [status |-> "redirect", next |-> u, length |-> 0,
                declared |-> FALSE, encoded |-> FALSE]

Body(n, declared, encoded) ==
  [status |-> "ok", next |-> NoUrl, length |-> n,
   declared |-> declared, encoded |-> encoded]

MCWeb ==
  [u \in MCFetchable |->
     CASE u = page   -> {Redirect(mirror), Redirect(NoUrl), Body(2, FALSE, FALSE)}
       [] u = mirror -> {Redirect(page), Redirect(intra), Redirect(ftp),
                         Body(3, FALSE, FALSE), Body(3, TRUE, FALSE)}
       [] u = intra  -> {Body(1, TRUE, FALSE), Body(1, FALSE, TRUE), NoResponse}]

Fetch(u, timeout, limit, guarded, parent) ==
  [url |-> u, cap |-> 2, timeout |-> timeout, limit |-> limit,
   guarded |-> guarded, parent |-> parent]

MCCalls ==
  {Fetch(page, 2, 2, FALSE, NoEndpoint), Fetch(page, 1, 1, TRUE, own),
   Fetch(mirror, 2, 2, TRUE, NoEndpoint), Fetch(ftp, 1, 0, TRUE, own)}
=============================================================================
