------------------------------ MODULE MCFrontEnd ------------------------------
(***************************************************************************)
(* Scans of a tree of three directories and three files with two links in  *)
(* every place and to every target, outside, round, dangling or onto one   *)
(* another; starts that fail in each way; a server for two callers.        *)
(***************************************************************************)
EXTENDS FrontEnd

File(parent, name) ==
  [kind |-> "file", parent |-> parent, name |-> name, listed |-> TRUE, readable |-> TRUE,
   target |-> Nowhere, yields |-> 2]

Dir(parent, name) == [File(parent, name) EXCEPT !.kind = "dir", !.listed = FALSE]

Link(parent, name, target, listed) ==
  [File(parent, name) EXCEPT !.kind = "link", !.target = target, !.listed = listed]

Tree ==
  ("r" :> Dir(Nowhere, 1)) @@ ("a" :> Dir("r", 2)) @@ ("b" :> Dir("a", 4))
  @@ ("f" :> File("r", 3)) @@ ("g" :> File("a", 3)) @@ ("h" :> File("b", 3))
  @@ ("out" :> Dir(Nowhere, 7)) @@ ("o" :> File("out", 3))
  @@ ("k" :> [File("r", 8) EXCEPT !.listed = FALSE])

Targets == {"r", "a", "b", "h", "out", "o", Nowhere}

Trees ==
  {Tree @@ ("l" :> Link(p, n, t, TRUE)) @@ ("m" :> Link(q, 6, u, listed)) :
     p \in {"r", "b"}, n \in {1, 5}, t \in Targets \cup {"m"}, q \in {"r", "a", "out"},
     u \in Targets \cup {"l"}, listed \in BOOLEAN}

-----------------------------------------------------------------------------
Key(section, name, value) == (<<section, name>> :> value)

Files ==
  {NoFile, [NoFile EXCEPT !.readable = FALSE], [NoFile EXCEPT !.parses = FALSE]}
  \cup {[NoFile EXCEPT !.given = TRUE, !.keys = k] :
          k \in {Key("ssrf", "guard_input_urls", "never"), Key("ssrf", "guard_input_url", "never"),
                 Key("budget", "max_input_bytes", "0"), Key("html", "action_frame", "refuse")
                   @@ Key("ssrf", "guard_input_urls", "always"),
                 Key("fetch", "max_response_bytes", 20000)}}

Scan == [serve |-> FALSE, file |-> NoFile, flag |-> FALSE, outOk |-> TRUE, listsOk |-> TRUE,
         bindOk |-> TRUE]

Item(kind, entry) == [kind |-> kind, entry |-> entry]

Plainly == Tree @@ ("l" :> Link("r", 5, "out", TRUE)) @@ ("m" :> Link("r", 6, "r", TRUE))

Begin(how, where, args) == [command |-> how, fs |-> where, items |-> args]

Walks == {Begin(Scan, t, <<Item("path", "r")>>) : t \in Trees}

Arguments ==
  {<<>>, <<Item("path", "m"), Item("path", "out")>>, <<Item("path", "a"), Item("path", "a")>>,
   <<Item("path", Nowhere), Item("path", "k")>>,
   <<Item("url", Nowhere), Item("malformed", Nowhere), Item("path", "b")>>,
   <<Item("unreadable list", Nowhere)>>}

Commands ==
  [serve : BOOLEAN, file : Files, flag : BOOLEAN, outOk : BOOLEAN, listsOk : BOOLEAN,
   bindOk : {TRUE}] \cup {[Scan EXCEPT !.serve = TRUE, !.bindOk = FALSE]}

MCStarts ==
  Walks
  \cup {Begin([Scan EXCEPT !.serve = TRUE, !.file = f], Tree, <<>>) : f \in Files}
  \cup {Begin(c, Plainly, args) : c \in {d \in Commands : ~d.serve}, args \in Arguments}
  \cup {Begin(c, [Plainly EXCEPT !["b"].readable = FALSE], <<Item("path", "r")>>) :
          c \in {Scan, [Scan EXCEPT !.serve = TRUE, !.bindOk = FALSE],
                 [Scan EXCEPT !.serve = TRUE, !.listsOk = FALSE]}}

-----------------------------------------------------------------------------
Submission(route, json, body, large) ==
  [route |-> route, json |-> json, body |-> body, large |-> large]

MCSubmissions ==
  {Submission(r, FALSE, "text", FALSE) : r \in {"/health", "unknown", "submit"}}
  \cup {Submission("submit", TRUE, b, FALSE) : b \in {"text", "url", "malformed"}}
  \cup {Submission("submit", FALSE, "text", TRUE)}

Processed == {"Clean", "Sanitised", "Refused", "InternalError"}

MCStatuses ==
  [bytes     |-> Processed,
   url       |-> Processed \cup {"BudgetExceeded", "FetchError", "SsrfBlocked", "UnsupportedScheme"},
   malformed |-> {"MalformedUrl"}]
=============================================================================
