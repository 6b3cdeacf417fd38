------------------------------- MODULE HtmlPass -------------------------------
(***************************************************************************)
(* The HTML pass (html/mod.rs) and the pass that points a sanitised        *)
(* document at local copies (html/references.rs).  A document is the       *)
(* sequence of its elements.  An attribute's value is a record: the scheme *)
(* it is read as, the layers of character references around that scheme,   *)
(* the names its origin goes by, and the verdict of the URL checker, which *)
(* is a function of the value (UrlCheck!MemoTransparent).                  *)
(***************************************************************************)
EXTENDS Sniff, SequencesExt

(* What F makes of each element of a sequence, one after the other.        *)
Each(seq, F(_)) == FlattenSeq([i \in DOMAIN seq |-> F(seq[i])])

NoValue == [text |-> "none"]

UrlAttributes == <<"href", "src", "action", "formaction", "data", "poster">>

HasAttr(el, name) == name \in DOMAIN el.attrs

Without(attrs, name) == [n \in DOMAIN attrs \ {name} |-> attrs[n]]

(* is_dangerous_scheme(): one layer of character references is read, and   *)
(* spaces, control characters and case do not count.                       *)
Dangerous(value) == value.scheme \in {"javascript", "data"} /\ value.layers <= 1

(* origin_allowed(): a value that is no absolute URL goes by no name.      *)
OriginAllowed(el, name, allowlist) ==
  HasAttr(el, name) /\ el.attrs[name].origins \cap allowlist # {}

-----------------------------------------------------------------------------
(* The rules that consume an element: what fires, and the action for it.   *)
NoFire == [rule |-> "none"]

ScriptRule(el, rules) ==
  IF \/ rules.script = "Allow"
     \/ OriginAllowed(el, "src", rules.scriptOrigins)
  THEN NoFire ELSE Action("html.script.disallowed", rules.script)

FrameRule(el, rules) ==
  IF \/ rules.frame = "Allow"
     \/ OriginAllowed(el, IF el.tag = "object" THEN "data" ELSE "src", rules.frameOrigins)
  THEN NoFire ELSE Action("html.frame.disallowed", rules.frame)

MetaRefreshRule(el, rules) ==
  IF ~el.refresh \/ rules.refresh = "Allow"
  THEN NoFire ELSE Action("html.meta.refresh", rules.refresh)

ElementRule(el, rules) ==
  CASE el.tag = "script"                       -> ScriptRule(el, rules)
    [] el.tag \in {"iframe", "object", "embed"} -> FrameRule(el, rules)
    [] el.tag = "meta"                         -> MetaRefreshRule(el, rules)
    [] OTHER                                   -> NoFire

Div == [tag |-> "div", attrs |-> <<>>, handlers |-> {}, refresh |-> FALSE,
        sheet |-> FALSE, srcset |-> <<>>]

(* apply_element_action(): a placeholder stands in for the element, any    *)
(* other action leaves nothing of it.                                      *)
Consumed(fired) ==
  [left    |-> IF fired.action = "Placeholder" THEN <<Div>> ELSE <<>>,
   actions |-> <<fired>>,
   refused |-> fired.action = "Refuse"]

-----------------------------------------------------------------------------
(* The rules that clean what survived.  done is the element so far, what   *)
(* was reported of it, and whether a rule refused.                         *)
StripEventHandlers(done, rules) ==
  IF rules.handler = "Allow" THEN done
  ELSE [el      |-> [done.el EXCEPT !.handlers = {}],
        actions |-> done.actions \o
                      [i \in 1 .. Cardinality(done.el.handlers) |->
                         Action("html.attr.event_handler", rules.handler)],
        refused |-> done.refused \/ (rules.handler = "Refuse" /\ done.el.handlers # {})]

(* A pass over the attributes that hold URLs: where a rule fired, the      *)
(* attribute is removed, let be, or made to say its target.  No attribute  *)
(* has a say in what becomes of another.                                   *)
UrlNames(el) == {n \in ToSet(UrlAttributes) : HasAttr(el, n)}

Sweep(done, fired, target) ==
  LET attrs == done.el.attrs
      hit == {n \in DOMAIN fired : fired[n] # NoFire}
      Hit(action) == {n \in hit : fired[n].action = action}
  IN  [el      |-> [done.el EXCEPT !.attrs =
                      [n \in DOMAIN attrs \ Hit("Remove") |->
                         IF n \in hit \ Hit("Allow") THEN target[n] ELSE attrs[n]]],
       actions |-> done.actions \o
                     Each(UrlAttributes, LAMBDA n : IF n \in hit THEN <<fired[n]>> ELSE <<>>),
       refused |-> done.refused \/ Hit("Refuse") # {}]

SchemeRule(value, rules) ==
  IF rules.scheme # "Allow" /\ Dangerous(value)
  THEN Action("html.attr.dangerous_scheme", rules.scheme) ELSE NoFire

NeutraliseDangerousSchemes(done, rules, urls) ==
  Sweep(done, [n \in UrlNames(done.el) |-> SchemeRule(done.el.attrs[n], rules)],
        [n \in UrlNames(done.el) |-> urls.placeholder])

(* What the policy says of a verdict.                                      *)
UrlRule(value, urls) ==
  LET rewritten == value.canonical # NoValue IN
  CASE value.label = "clean"     -> IF rewritten THEN Action("url.normalised", urls.normalised)
                                    ELSE NoFire
    [] value.label = "blocked"   -> Action("url.blocklist", urls.blocked)
    [] value.label = "homograph" -> Action("url.homograph", urls.homograph)
    [] value.label = "userinfo"  -> Action("url.userinfo", urls.userinfo)
    [] value.label = "internal"  -> Action("ssrf", urls.internal)
    [] value.label = "idn"       -> Action("url.idn", IF rewritten THEN urls.idn ELSE "Allow")
    [] value.label = "malformed" -> Action("url.malformed", urls.blocked)

UrlTarget(value, urls) ==
  IF value.canonical # NoValue THEN value.canonical ELSE urls.placeholder

UrlChecks(done, urls) ==
  Sweep(done, [n \in UrlNames(done.el) |-> UrlRule(done.el.attrs[n], urls)],
        [n \in UrlNames(done.el) |-> UrlTarget(done.el.attrs[n], urls)])

(* Ctx::handle(), but for the references.                                  *)
Handle(el, rules, urls) ==
  LET fired == ElementRule(el, rules)
      quiet == StripEventHandlers([el |-> el, actions |-> <<>>, refused |-> FALSE], rules)
      done == UrlChecks(NeutraliseDangerousSchemes(quiet, rules, urls), urls)
  IN  IF fired # NoFire THEN Consumed(fired)
      ELSE [left |-> <<done.el>>, actions |-> done.actions, refused |-> done.refused]

-----------------------------------------------------------------------------
Referring(el, name, kind) ==
  IF HasAttr(el, name) /\ el.attrs[name].text # ""
  THEN <<[raw |-> el.attrs[name], kind |-> kind, from |-> name]>> ELSE <<>>

SrcsetUrls(el) ==
  [i \in DOMAIN el.srcset |-> [raw |-> el.srcset[i], kind |-> "image", from |-> "srcset"]]

(* collect(): the references of one element.                               *)
References(el) ==
  CASE el.tag = "link" /\ el.sheet -> Referring(el, "href", "css")
    [] el.tag = "script"           -> Referring(el, "src", "js")
    [] el.tag = "img"              -> Referring(el, "src", "image")
    [] el.tag = "source"           -> Referring(el, "src", "image") \o SrcsetUrls(el)
    [] OTHER                       -> <<>>

(* The first <base href> of what survived.                                 *)
Base(elements) ==
  LET bases == SelectSeq(elements, LAMBDA el : el.tag = "base" /\ HasAttr(el, "href"))
  IN  IF bases = <<>> THEN NoValue ELSE bases[1].attrs["href"]

(* A bug in which references are collected from the document as it came.   *)
SanitizeHtmlEarly(elements, broken, rules, urls) ==
  LET done == [i \in DOMAIN elements |-> Handle(elements[i], rules, urls)]
      left == Each(done, LAMBDA d : d.left)
      out == [output |-> left, actions |-> Each(done, LAMBDA d : d.actions),
              refused |-> \E i \in DOMAIN done : done[i].refused]
  IN  out @@ [references |-> Each(elements, References), base |-> Base(left)]

(* What the elements add up to; a rewriter that breaks off refuses.        *)
Gather(done, broken) ==
  LET left == IF broken THEN <<>> ELSE Each(done, LAMBDA d : d.left)
  IN  [output     |-> left,
       actions    |-> Each(done, LAMBDA d : d.actions),
       refused    |-> broken \/ \E i \in DOMAIN done : done[i].refused,
       references |-> Each(left, References),
       base       |-> Base(left)]

(* sanitize_html().                                                        *)
SanitizeHtml(elements, broken, rules, urls) ==
  Gather([i \in DOMAIN elements |-> Handle(elements[i], rules, urls)], broken)

-----------------------------------------------------------------------------
Mapped(map, value) == IF value \in DOMAIN map THEN map[value] ELSE value

RewriteElement(el, map) ==
  IF el.tag \notin {"link", "script", "img", "source"} THEN el
  ELSE [el EXCEPT !.attrs = [n \in DOMAIN @ |-> IF n \in {"href", "src"} THEN Mapped(map, @[n])
                                                ELSE @[n]],
                  !.srcset = [i \in DOMAIN @ |-> Mapped(map, @[i])]]

(* rewrite_references(): a rewriter that breaks off changes nothing.       *)
RewriteReferences(elements, broken, map) ==
  IF broken THEN elements
  ELSE [i \in DOMAIN elements |-> RewriteElement(elements[i], map)]
=============================================================================
