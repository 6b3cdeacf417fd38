-------------------------- MODULE MCSubresourceLoop --------------------------
(***************************************************************************)
(* Documents with up to four references; css is spelt in two ways, evil is *)
(* on a block-list, mail is no web URL, and of css, img and pic only two   *)
(* can be requested.                                                       *)
(***************************************************************************)
EXTENDS SubresourceLoop

CONSTANTS css, img, pic, evil, mail, cssRel, cssAbs, imgRaw, picRaw, evilRaw, mailRaw, frag,
          own, other, pub

MCUrls == {css, img, pic, evil, mail}
MCFetchable == {css, img, pic, evil}
MCRaws == {cssRel, cssAbs, imgRaw, picRaw, evilRaw, mailRaw, frag}

MCAbsolute ==
  [r \in MCRaws |->
     CASE r \in {cssRel, cssAbs} -> css
       [] r = imgRaw             -> img
       [] r = picRaw             -> pic
       [] r = evilRaw            -> evil
       [] r = mailRaw            -> mail
       [] OTHER                  -> NoUrl]

Rules(depth, rewrite, defang) ==
  [fetch_subresources |-> TRUE, max_depth |-> depth, rewrite_refs |-> rewrite,
   defang_refused |-> defang]

MCPolicies ==
  {Rules(1, TRUE, TRUE), Rules(2, TRUE, FALSE), Rules(1, FALSE, TRUE),
   Rules(0, TRUE, TRUE)}

MCDocuments ==
  {<<>>, <<frag, cssRel, imgRaw, cssRel>>, <<cssRel, cssAbs, mailRaw, imgRaw>>,
   <<cssRel, imgRaw, picRaw>>,
   <<evilRaw, imgRaw, cssAbs, imgRaw>>}
=============================================================================
