------------------------------ MODULE MCUrlCheck ------------------------------
(***************************************************************************)
(* Two workers check the links of pages that mix harmless hosts, a blocked *)
(* one with a root dot, a look-alike, an IDN, wrapped and plain addresses  *)
(* and references without a host.                                          *)
(***************************************************************************)
EXTENDS UrlCheck

MCShown ==
  [l \in {"", "com", "org", "evil", "bank", "xn--bnk", "xn--mnchen"} |->
     CASE l = "xn--bnk"    -> "b4nk"
       [] l = "xn--mnchen" -> "muenchen"
       [] OTHER            -> l]

MCPrototype ==
  [l \in {"", "com", "org", "evil", "bank", "b4nk", "muenchen"} |->
     IF l = "b4nk" THEN "bank" ELSE l]

MCLocalNames == {<<"localhost">>}

Domain(labels) == [kind |-> "domain", labels |-> labels]
Address(ip) == [kind |-> "ip", ip |-> ip]

Url(host, user, password, exact) ==
  [control |-> FALSE, form |-> "absolute", host |-> host, user |-> user,
   password |-> password, exact |-> exact]

Text(name, url) == [text |-> name, url |-> url]

Bank == Domain(<<"bank", "com">>)

MCRaws ==
  {Text("bank", Url(Bank, FALSE, FALSE, TRUE)),
   Text("bank, spelt in capitals", Url(Bank, FALSE, FALSE, FALSE)),
   Text("credentials", Url(Bank, TRUE, TRUE, FALSE)),
   Text("blocked", Url(Domain(<<"bank", "evil", "com", "">>), TRUE, FALSE, FALSE)),
   Text("look-alike", Url(Domain(<<"evil", "xn--bnk", "com">>), FALSE, FALSE, TRUE)),
   Text("idn", Url(Domain(<<"xn--mnchen", "org">>), FALSE, FALSE, FALSE)),
   Text("wrapped", Url(Address(V6(<<0, 0, 0, 0, 0, Word(255, 255), Word(127, 0), 1>>)), FALSE, FALSE, TRUE)),
   Text("public", Url(Address(V4(8, 8, 8, 8)), FALSE, FALSE, TRUE)),
   Text("fragment", [Url(NoHost, FALSE, FALSE, FALSE) EXCEPT !.form = "relative"]),
   Text("line break", [Url(Bank, FALSE, FALSE, FALSE) EXCEPT !.control = TRUE])}

MCBlockFiles ==
  << << [kind |-> "blank"],
        [kind |-> "entry", address |-> <<"0">>,
         names |-> << <<"0">>, <<"localhost">>, <<"evil", "com">> >>] >>,
     << [kind |-> "entry", address |-> <<"0">>, names |-> << <<"evil", "org">> >>] >> >>

MCProtected == << <<>>, <<"bank", "com">> >>

MCDenyExtra ==
  << [shape |-> "address", ip |-> V6(<<10758, 0, 0, 0, 0, 0, 0, 0>>), prefix |-> 29],
     [shape |-> "address", ip |-> V4(8, 8, 4, 4), prefix |-> NoPrefix] >>
=============================================================================
