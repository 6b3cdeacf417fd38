------------------------------- MODULE Scoring -------------------------------
(***************************************************************************)
(* How the evaluation scores one processed sample against its ground-truth *)
(* entry, and many into tables (xtask: truth.rs, engine.rs and             *)
(* correctness.rs).  Statuses, rules and markers are names; lists are sets *)
(* except the required rules, which are counted as often as they are       *)
(* listed.                                                                 *)
(***************************************************************************)
EXTENDS Naturals, Sequences, FiniteSets, FiniteSetsExt, SequencesExt

NoOutput == {"no output"}

(* FetchExpectation::default(), which is also what an absent table means.  *)
NoFetchTable == [status |-> {}, rules |-> <<>>, allowed |-> {}, forbidden |-> {}]

Justified(sample) == ToSet(sample.rules) \cup sample.allowed

(* The fetching table replaces the statuses and adds to the rest; a rule   *)
(* it requires is not justified by being required.                         *)
Expectation(sample, fetching) ==
  LET extra == IF fetching THEN sample.fetch ELSE NoFetchTable
  IN  [status    |-> IF extra.status = {} THEN sample.status ELSE extra.status,
       rules     |-> sample.rules \o extra.rules,
       justified |-> Justified(sample) \cup extra.allowed,
       forbidden |-> sample.forbidden \cup extra.forbidden]

Carries(done, marker) == done.output # NoOutput /\ marker \in done.output

TookTooLong == "took too long"

Measure(sample, done, fetching, requests) ==
  LET want == Expectation(sample, fetching)
  IN  [set        |-> sample.set,
       category   |-> sample.category,
       status_ok  |-> done.status \in want.status,
       missing    |-> ToSet(want.rules) \ done.rules,
       unexpected |-> (done.rules \ want.justified)
                      \cup (done.rules \cap sample.forbidden_rules)
                      \cup (IF sample.hurried /\ done.slow THEN {TookTooLong} ELSE {}),
       leaked     |-> {k \in want.forbidden : Carries(done, k)},
       lost       |-> {k \in sample.preserved : ~Carries(done, k)},
       fired      |-> done.rules,
       expected   |-> want.rules,
       output_ok  |-> (done.output # NoOutput) = sample.output,
       requests   |-> requests]

Neutralised(m) == m.status_ok /\ m.output_ok /\ m.leaked = {}
RulesNamed(m) == m.missing = {}

Verdict(m) ==
  IF m.set = "malicious"
  THEN IF Neutralised(m) THEN IF RulesNamed(m) THEN "detected" ELSE "mislabelled"
       ELSE IF m.leaked # {} THEN "leaked" ELSE "missed"
  ELSE IF m.unexpected = {} /\ m.lost = {} THEN "clean" ELSE "false_positive"

IsFailure(verdict) == verdict \in {"missed", "leaked", "false_positive", "mislabelled"}

-----------------------------------------------------------------------------
Listed(rule, rules) == Cardinality({k \in DOMAIN rules : rules[k] = rule})

(* confusion(): what each rule was expected to do and did.                 *)
Confusion(measured) ==
  LET all == DOMAIN measured
      Expected(rule, where) ==
        MapThenSumSet(LAMBDA i : Listed(rule, measured[i].expected), where)
      spurious(i) == IF measured[i].set = "benign" THEN measured[i].unexpected ELSE {}
      named == UNION {ToSet(measured[i].expected) \cup measured[i].fired \cup spurious(i) : i \in all}
  IN  [rule \in named |->
         LET hit == {i \in all : rule \in measured[i].fired}
         IN  [expected       |-> Expected(rule, all),
              fired          |-> Cardinality(hit),
              true_positive  |-> Expected(rule, hit),
              false_negative |-> Expected(rule, all \ hit),
              false_positive |-> Cardinality({i \in all : rule \in spurious(i)})]]

Held(m) == IF m.set = "malicious" THEN Neutralised(m) ELSE Verdict(m) = "clean"

HowMany(measured, P(_)) == Cardinality({i \in DOMAIN measured : P(measured[i])})

(* summarise(): the numerators of a set's rates, over Len(measured), and   *)
(* of each category how many samples there are and how many held.          *)
Summary(set, measured, fetching) ==
  LET neutralised == HowMany(measured, Neutralised)
      categories == {measured[i].category : i \in DOMAIN measured}
  IN  [detection      |-> IF set = "malicious" THEN neutralised ELSE 0,
       named          |-> IF set = "malicious" THEN HowMany(measured, RulesNamed) ELSE 0,
       leaks          |-> HowMany(measured, LAMBDA m : Verdict(m) = "leaked"),
       false_negative |-> IF set = "malicious" THEN Len(measured) - neutralised ELSE 0,
       false_positive |-> HowMany(measured, LAMBDA m : Verdict(m) = "false_positive"),
       fetch_coverage |-> IF fetching THEN HowMany(measured, LAMBDA m : m.requests > 1) ELSE 0,
       held           |-> [c \in categories |->
                             HowMany(measured, LAMBDA m : m.category = c /\ Held(m))],
       total          |-> [c \in categories |-> HowMany(measured, LAMBDA m : m.category = c)]]

-----------------------------------------------------------------------------
(* How an input page is published (Origin::publish): a reference that would*)
(* leave for the public web is pointed at the fixture.  A reference is the *)
(* character before its slashes, its scheme (none of its own: "relative")  *)
(* and the kind of its authority.                                          *)
Openers == {"\"", "'", "=", "(", " "}

(* Public names go; addresses, brackets, escapes, single labels and        *)
(* reserved names are the URL policy's to catch.                           *)
ShouldAnchor(authority) == authority = "public name"

Anchored(ref) ==
  ShouldAnchor(ref.authority)
  /\ IF ref.before = ":" THEN ref.scheme \in {"http", "https"} ELSE ref.before \in Openers
=============================================================================
