------------------------------ MODULE MCPipeline ------------------------------
(***************************************************************************)
(* One input at a time, out of families that each vary what one handler    *)
(* looks at: documents of one or two elements, stylesheets, tables of      *)
(* entities, archives, chains of TIFF directories, images and PDFs.        *)
(***************************************************************************)
EXTENDS Pipeline

Blank ==
  [at |-> [o \in {0, 4, 8} |-> ""], tiny |-> FALSE, size |-> 1, broken |-> FALSE, elements |-> <<>>,
   sheet |-> <<>>, decls |-> <<>>, externalId |-> FALSE,
   zip |-> [endRecord |-> FALSE, count |-> 0, entries |-> <<>>],
   pdf |-> [loads |-> FALSE, saves |-> FALSE, paths |-> {}],
   cells |-> <<>>, directory |-> <<>>, tape |-> <<>>,
   head |-> [tag |-> "short", width |-> 0, height |-> 0]]

Starting(token) == [Blank.at EXCEPT ![0] = token]

-----------------------------------------------------------------------------
Value(text, scheme, layers, label, canonical) ==
  [text |-> text, scheme |-> scheme, layers |-> layers, origins |-> {}, label |-> label,
   canonical |-> canonical]

Tidy == [Value("https://cdn/", "https", 0, "clean", NoValue) EXCEPT !.origins = {"cdn"}]
Ascii == Value("https://xn--a/", "https", 0, "idn", NoValue)

Values ==
  {Tidy, Value("", "none", 0, "clean", NoValue), Value("java&#115;cript:", "javascript", 1, "clean", NoValue),
   Value("javascript:", "javascript", 2, "clean", NoValue),
   Value("https:cdn", "https", 0, "clean", Tidy), Value("https://me@cdn/", "https", 0, "userinfo", Tidy),
   Value("https://aa/", "https", 0, "idn", Ascii), Value("https://evil/", "https", 0, "blocked", NoValue),
   Value("http://10.0.0.1/", "https", 0, "internal", NoValue)}

El(tag, attrs) ==
  [tag |-> tag, attrs |-> attrs, handlers |-> {}, refresh |-> FALSE, sheet |-> tag = "link",
   srcset |-> <<>>]

Elements ==
  {El(tag, "src" :> v) : tag \in {"script", "img", "iframe"}, v \in Values}
  \cup {El(tag, "href" :> v) : tag \in {"link", "base"}, v \in Values}
  \cup {[El("a", "href" :> v @@ "data" :> Tidy) EXCEPT !.handlers = {"onclick", "onload"}] : v \in Values}
  \cup {[El("source", <<>>) EXCEPT !.srcset = <<v, Tidy>>] : v \in Values}
  \cup {[El("meta", <<>>) EXCEPT !.refresh = b] : b \in BOOLEAN}
  \cup {El("object", "data" :> Tidy)}

Documents ==
  {<<e>> : e \in Elements}
  \cup {<<El("base", "href" :> v), El("base", "href" :> Tidy), El("img", "src" :> v)>> : v \in Values}

Html(doc) == [Blank EXCEPT !.at = Starting("<!doctype html>"), !.elements = doc]

-----------------------------------------------------------------------------
Rule(at, tokens, rules) ==
  [at |-> at, tokens |-> tokens, rules |-> [i \in DOMAIN rules |-> [tokens |-> rules[i]]]]

TokenSets == {{}, {"match"}, {"fetch", "match"}, {"scripting"}, {"danger"}, {"spelled"}}

Sheets ==
  {<<Rule("none", a, <<>>), Rule(at, b, <<c, d>>)>> :
     a, b \in TokenSets, c \in {{}, {"scripting"}, {"fetch", "match"}}, d \in {{}, {"danger"}}, at \in {"media", "font-face"}}
  \cup {<<Rule("import", {"import"}, <<>>)>>, <<>>}

Css(sheet) == [Blank EXCEPT !.sheet = sheet]

-----------------------------------------------------------------------------
Pieces == {Text(2), Ref("a"), Ref("b"), Ref("c"), Ref("undeclared")}

Short == {<<>>} \cup {<<p>> : p \in Pieces \cup {Amp}}
ValuesOf == Short \cup (Pieces \X Pieces)

Decl(name, form, value) == [name |-> name, form |-> form, value |-> value]

Tables ==
  {<<Decl("a", "internal", v), Decl("b", "internal", w), Decl("c", "internal", x)>> :
     v \in ValuesOf, w \in Short \cup {<<Ref("c"), Ref("c")>>}, x \in {<<>>, <<Text(2), Ref("b")>>, <<Ref("a"), Amp>>}}
  \cup {<<Decl("a", "internal", v), Decl("b", form, <<Ref("a")>>), Decl("a", "internal", <<Text(1)>>)>> :
          v \in ValuesOf, form \in {"internal", "external", "open"}}
  \cup {<<Decl(n, "internal", <<>>), Decl("b", "internal", <<>>), Decl("c", "internal", <<>>),
          Decl("d", "internal", <<>>)>> : n \in {"a", "d"}}

Xml(table) == [Blank EXCEPT !.at = Starting("<?xml"), !.decls = table]

-----------------------------------------------------------------------------
Entry(folder, vba, packed, full) ==
  [folder |-> folder, vba |-> vba, packed |-> packed, full |-> full]

ZipEntries ==
  {Entry("a/", FALSE, 1, 2), Entry("a/", FALSE, 0, 3), Entry("word/", TRUE, 1, 1),
   Entry("xl/", FALSE, 2, 4), Entry("a/", TRUE, 2, 3)}

ZipFile(endRecord, count, entries) ==
  [Blank EXCEPT !.at = Starting("PK34"),
     !.zip = [endRecord |-> endRecord, count |-> count, entries |-> entries]]

Archives ==
  {ZipFile(end, n, <<e, f>>) : end \in BOOLEAN, n \in 0 .. 3, e, f \in ZipEntries}

-----------------------------------------------------------------------------
Tiff(cells) == [Blank EXCEPT !.at = Starting("II*0"), !.cells = cells]

Chains ==
  {Tiff(cells) : cells \in UNION {[1 .. n -> 0 .. 5] : n \in 0 .. 3}}
  \cup {Tiff(<<a, b, 1, 7, c, 1, 7, d>>) : a, b \in {0, 1, 2, 3, 5, 9}, c, d \in {0, 1, 3, 5}}

(* Bodies of fewer than four bytes, and one that is no TIFF to sniffing.   *)
Fragments ==
  {[Blank EXCEPT !.tiny = TRUE, !.at = Starting(token)] : token \in {"", "II", "MM"}}
  \cup {[Tiff(<<0>>) EXCEPT !.at = Starting("II")]}

Paths ==
  {{}, {<<"Root">>}, {<<"Root">>, <<"Root", "AA">>, <<"Root", "AA", "S">>},
   {<<"Names">>, <<"Names", "1">>, <<"Names", "1", "JS">>}}

Pdfs ==
  {[Blank EXCEPT !.at = Starting("%PDF-"), !.pdf = [loads |-> l, saves |-> s, paths |-> p]] :
     l, s \in BOOLEAN, p \in Paths}

Mark(kind, w, h, owns) == [kind |-> kind, width |-> w, height |-> h, owns |-> owns]

Tapes ==
  {<<Mark("segment", 0, 0, n), Mark("frame", 1, 1, 0), k, Mark("frame", 3, 3, 0)>> :
     n \in 0 .. 3,
     k \in {Mark("fill", 0, 0, 0), Mark("short", 0, 0, 0), Mark("standalone", 0, 0, 0)}}

Rows == {[tag |-> t, type |-> y, value |-> v] :
           t \in {"width", "length", "cut"}, y \in {"short", "ascii"}, v \in {1, 3}}

Pictures ==
  {[Blank EXCEPT !.at = Starting("FF D8 FF"), !.tape = t] : t \in Tapes}
  \cup {[Blank EXCEPT !.at = Starting(token), !.head = [tag |-> tag, width |-> w, height |-> h]] :
          token \in {"89 PNG", "GIF89a", ""}, tag \in {"IHDR", "VP8X", "VP8L", "VP8 ", "short"},
          w, h \in {0, 1, 3}}
  \cup {[Tiff(<<0>>) EXCEPT !.directory = <<r, s, [tag |-> "length", type |-> "long", value |-> 3]>>] :
          r, s \in Rows}

Media ==
  {[Blank EXCEPT !.at[4] = "ftyp"], [Blank EXCEPT !.at[8] = "WAVE"],
   [Blank EXCEPT !.at = Starting("<svg"), !.elements = <<El("script", <<>>)>>],
   [Blank EXCEPT !.at = Starting("<svg"), !.elements = <<El("a", "href" :> Inert)>>]}

-----------------------------------------------------------------------------
DefaultPolicy ==
  [html |-> DefaultHtmlRules, urls |-> NeutralUrlRules,
   xml |-> [maxEntityDepth |-> 2, maxExpandedSize |-> 6, maxEntityCount |-> 3],
   zip |-> [maxEntryCount |-> 2, maxRatio |-> 2, maxInflated |-> 5],
   maxPixels |-> 6, activeContent |-> "Reject", sniffRule |-> "Reject",
   types |-> {"css", "js", "image"}, fetchSubresources |-> FALSE, maxInput |-> 2]

Lenient ==
  [DefaultPolicy EXCEPT !.activeContent = "Allow", !.sniffRule = "Rewrite", !.types = {"css", "image"},
     !.fetchSubresources = TRUE,
     !.html.scriptOrigins = {"cdn"}, !.html.frameOrigins = {"cdn"}]

StylesOnly == [DefaultPolicy EXCEPT !.types = {"css"}]

Harsh ==
  [Lenient EXCEPT !.html.handler = "Refuse", !.html.scheme = "Remove", !.html.frame = "Refuse",
     !.urls.blocked = "Remove", !.urls.internal = "Refuse"]

Open ==
  [Lenient EXCEPT !.html = [a \in DOMAIN @ |-> IF a \in {"scriptOrigins", "frameOrigins"} THEN {}
                                               ELSE "Allow"],
     !.urls.blocked = "Allow"]

In(role, kind, source, header, body, policy) ==
  [role |-> role, kind |-> kind, source |-> source, header |-> header, body |-> body,
   policy |-> policy]

From(kind, extension) == [kind |-> kind, extension |-> extension, web |-> TRUE]

Bytes(body, extension, policies) ==
  {In("input", NoType, From("bytes", extension), "", body, p) : p \in policies}

Subresource(body, header, kind) ==
  {In("subresource", kind, From("url", ""), header, body, p) : p \in {DefaultPolicy, Lenient, StylesOnly}}

Sources ==
  {From("file", "html"), From("url", "PNG"), From("malformed", ""),
   [From("url", "") EXCEPT !.web = FALSE]}

MCInputs ==
  UNION {Bytes(Html(d), "", {DefaultPolicy, Lenient, Harsh, Open}) : d \in Documents}
  \cup UNION {Bytes(Css(s), "css", {DefaultPolicy, Lenient}) : s \in Sheets}
  \cup UNION {Bytes(Xml(t), "", {Lenient}) : t \in Tables}
  \cup UNION {Bytes(b, "zip", {Lenient}) : b \in Archives}
  \cup UNION {Bytes(b, "", {Lenient}) : b \in Chains}
  \cup UNION {Bytes(b, e, {DefaultPolicy, Lenient}) : b \in Fragments, e \in {"zip", "tif", "js"}}
  \cup UNION {Bytes(b, "", {DefaultPolicy, Lenient}) : b \in Pdfs \cup Media}
  \cup UNION {Bytes(b, "webp", {DefaultPolicy}) : b \in Pictures}
  \cup {In("input", NoType, s, h, [Html(<<>>) EXCEPT !.size = n, !.broken = b], DefaultPolicy) :
          s \in Sources, h \in {"", "image/png", "text/html"}, n \in 1 .. 3, b \in BOOLEAN}
  \cup UNION {Subresource(b, h, k) :
                b \in Media \cup Fragments \cup {Html(<<>>), Css(<<>>), Tiff(<<0>>), Tiff(<<9>>)},
                h \in {"", "text/css", "text/javascript", "image/png", "image/tiff", "text/html"},
                k \in {"css", "js", "image"}}
=============================================================================
