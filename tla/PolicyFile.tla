------------------------------ MODULE PolicyFile ------------------------------
(***************************************************************************)
(* The policy (policy/mod.rs): built-in defaults, which a file overrides   *)
(* key by key and the command line last.  A key is <<section, name>>; sizes*)
(* and times are in thousands and are ordered as in the code.              *)
(***************************************************************************)
EXTENDS Naturals, TLC

HtmlDefaults ==
  [script_allowlist |-> {}, frame_origin_allowlist |-> {}, action_script |-> "remove",
   action_event_handler |-> "remove", action_dangerous_scheme |-> "rewrite",
   action_frame |-> "placeholder", action_meta_refresh |-> "remove",
   placeholder_frame |-> "div"]

UrlActions ==
  {"action_blocked", "action_homograph", "action_userinfo", "action_internal", "action_idn",
   "action_normalised"}

UrlDefaults ==
  [blocklists |-> {}, protected_domains |-> {}, placeholder_url |-> "#blocked",
   action_blocked |-> "rewrite", action_homograph |-> "rewrite", action_userinfo |-> "rewrite",
   action_internal |-> "rewrite", action_idn |-> "rewrite", action_normalised |-> "rewrite"]

BudgetDefaults ==
  [max_input_bytes |-> 10485, max_time_ms |-> 10, max_decompress_ratio |-> 10,
   max_entity_expansions |-> 1, max_image_pixels |-> 50000]

FetchDefaults ==
  [connect_timeout_ms |-> 5, read_timeout_ms |-> 5, total_timeout_ms |-> 30,
   redirect_limit |-> 5, max_response_bytes |-> 10485, user_agent |-> "web-sanitizer"]

InputDefaults == [extensions |-> {"html", "htm"}]

SubresourceDefaults ==
  [fetch_subresources |-> FALSE, max_depth |-> 1, max_requests |-> 32,
   max_total_bytes |-> 52428, types |-> {"css", "js", "image"}, sniff_rule |-> "Reject",
   active_content_rule |-> "Reject", dos_risk_rule |-> "Reject", rewrite_refs |-> TRUE,
   action_refused |-> "rewrite",
   zip_budget |-> [max_compression_ratio |-> 100, max_total_uncompressed_bytes |-> 1073741,
                   max_entry_count |-> 10],
   xml_budget |-> [max_entity_depth |-> 20, max_expanded_size |-> 10485,
                   max_entity_count |-> 10]]

SsrfDefaults ==
  [guard_input_urls |-> "server", same_origin_exemption |-> TRUE, allow_hosts |-> {},
   deny_extra |-> {}, allow_ttl_ms |-> 30]

Builtin ==
  [html |-> HtmlDefaults, urls |-> UrlDefaults, budgets |-> BudgetDefaults,
   fetch |-> FetchDefaults, input |-> InputDefaults, subresources |-> SubresourceDefaults,
   ssrf |-> SsrfDefaults, source |-> "builtin"]

(* What a file says: whether it can be read, whether it is TOML of the     *)
(* right types, and the values it gives to keys.                           *)
NoFile == [readable |-> TRUE, parses |-> TRUE, keys |-> <<>>, given |-> FALSE]

Known(key) ==
  key[1] \in DOMAIN Builtin \ {"source"} /\ key[2] \in DOMAIN Builtin[key[1]]

(* A bug in which a key that is not known does nothing.                    *)
LoadErrorLenient(file) ==
  IF ~file.readable THEN "io" ELSE IF ~file.parses THEN "parse" ELSE "none"

(* An unknown key is an error, never a key that does nothing.              *)
LoadError(file) ==
  IF ~file.readable THEN "io"
  ELSE IF ~file.parses \/ (\E key \in DOMAIN file.keys : ~Known(key)) THEN "parse"
  ELSE "none"

Load(file) ==
  [s \in DOMAIN Builtin |->
     IF s = "source" THEN IF file.given THEN "file" ELSE "builtin"
     ELSE [n \in DOMAIN Builtin[s] |->
             IF <<s, n>> \in DOMAIN file.keys THEN file.keys[<<s, n>>] ELSE Builtin[s][n]]]

(* override_policy(): a flag can only switch fetching on.                  *)
Override(policy, fetchFlag) ==
  IF fetchFlag THEN [policy EXCEPT !.subresources.fetch_subresources = TRUE] ELSE policy

HtmlActions ==
  {"action_script", "action_event_handler", "action_dangerous_scheme", "action_frame",
   "action_meta_refresh"}
(* Every action is one that acts, and the guard is on for callers.         *)
Acts(policy) ==
  /\ \A n \in HtmlActions : policy.html[n] # "allow"
  /\ \A n \in UrlActions : policy.urls[n] # "allow"
  /\ policy.ssrf.guard_input_urls # "never"

(* The keys that bound what is fetched and what is taken up; what may be   *)
(* fetched fits what may be taken up.                                      *)
Bounding ==
  {<<"fetch", "max_response_bytes">>, <<"fetch", "connect_timeout_ms">>,
   <<"fetch", "total_timeout_ms">>, <<"budgets", "max_input_bytes">>,
   <<"subresources", "max_total_bytes">>}

Fits(policy) ==
  /\ policy.fetch.max_response_bytes <= policy.budgets.max_input_bytes
  /\ policy.fetch.max_response_bytes <= policy.subresources.max_total_bytes
  /\ policy.fetch.connect_timeout_ms <= policy.fetch.total_timeout_ms
=============================================================================
