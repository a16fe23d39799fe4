----------------------------- MODULE PluginHost -----------------------------
(***************************************************************************)
(* The plugin manager (crates/ah-runtime: manager.rs, dynamic.rs, typed.rs,*)
(* invoke.rs; src/runtime_flow): the discovery of plugin libraries, the    *)
(* contract each must satisfy, which plugin serves a domain, the typed     *)
(* command registry, and one call - typed or from the command line - with  *)
(* the credentials the host resolves for it.                               *)
(*                                                                         *)
(* A domain and a command id are sequences of segments: git.tag.create is  *)
(* <<"git", "tag", "create">>.                                             *)
(***************************************************************************)
EXTENDS Naturals, Sequences, SequencesExt, FiniteSets

CONSTANTS
    Layouts,       \* directory layouts: sequences of sets of libraries, highest priority first
    Builtins,      \* domain -> plugin
    HostPlugins,   \* domain -> plugin of the host's own commands
    Asks,          \* requests: [kind, command, argv, arguments, credentials, smuggled]
    Kinds,         \* the kinds a secret can have in the vault
    SecretIds,
    Calls,
    MaxChanges     \* bound: changes of the settings and of the vault

\* Plugins are registered under the domain they declare, and a directory has
\* one file of a name.
ASSUME PluginAssumption ==
    /\ \A d \in DOMAIN Builtins : Builtins[d].domain = d
    /\ \A d \in DOMAIN HostPlugins : HostPlugins[d].domain = d
    /\ \A l \in Layouts :
         /\ Len(l) \in Nat /\ DOMAIN l = 1..Len(l)
         /\ \A i \in DOMAIN l : \A x, y \in l[i] : x.file \in Nat /\ (x.file = y.file => x = y)

Reserved == {<<"ai">>, <<"plugins">>, <<"mcp">>, <<"secrets">>, <<"upgrade">>}
NoRegistry == [ok |-> FALSE, entries |-> {}]
Nobody == [file |-> 0]
Untyped == [route |-> "argv"]
AbiVersion == 1
ApiVersion == <<1, 1>>

VARIABLES
    layout,        \* the directories of this process
    pending,       \* libraries still to load
    dynamic,       \* domain -> the library that serves it
    warned,        \* files skipped with a warning
    conflicts,     \* <<new file, file or "builtin" it shadows>>
    disabled,      \* the domains the settings switch off
    cached,        \* typed_registry: NoRegistry before it is built
    vault,         \* id -> kind, or "missing", "locked"
    changes,
    call           \* c -> its progress

hostVars == <<layout, pending, dynamic, warned, conflicts, disabled, cached, vault, changes, call>>

-----------------------------------------------------------------------------
(* The contract of a library.                                               *)

\* validate_secret_slots; names are model values, so they are well formed.
validate_secret_slots(slots) ==
    /\ \A i, j \in DOMAIN slots : i # j => slots[i].name # slots[j].name
    /\ \A i \in DOMAIN slots : slots[i].kinds # {}

\* mcp_input_schema: the properties a client may send.
mcp_input_schema(d) ==
    ((d.properties \cup {"context"}) \ (IF Head(d.id) = "http" THEN {"bearer", "basic"} ELSE {}))
    \cup (IF d.slots = <<>> THEN {} ELSE {"credentials"})

\* validate_descriptor: texts, effects, schemas and examples are one fact of a
\* descriptor; what the host adds to the schema is reserved.
validate_descriptor(domain, d) ==
    /\ d.wellformed
    /\ Len(d.id) > Len(domain) /\ IsPrefix(domain, d.id)
    /\ validate_secret_slots(d.slots)
    /\ "context" \notin d.properties
    /\ d.slots # <<>> => "credentials" \notin d.properties

compile_catalog(domain, commands) ==
    /\ \A i \in DOMAIN commands : validate_descriptor(domain, commands[i])
    /\ \A i, j \in DOMAIN commands : i # j => commands[i].id # commands[j].id

validate_plugin_api_contract(l) ==
    /\ l.api[1] = ApiVersion[1] /\ l.api[2] <= ApiVersion[2]
    /\ "manual" \in l.capabilities => "manual" \in l.symbols
    /\ IF "typed" \in l.capabilities
       THEN {"catalog", "invoke", "cancel"} \subseteq l.symbols
       ELSE {"catalog", "invoke", "cancel"} \cap l.symbols = {}

\* DynamicPlugin::load: the library opens and has its entry, the metadata it may
\* carry agrees with the entry's, and a typed one has a catalog that parses.
load(l) ==
    /\ l.opens /\ l.abi = AbiVersion
    /\ l.metadata \in {"absent", "agrees"}
    /\ l.metadata = "absent" => l.capabilities = {}
    /\ validate_plugin_api_contract(l)
    /\ "typed" \in l.capabilities => l.parses /\ compile_catalog(l.domain, l.catalog)

Commands(l) == IF "typed" \in l.capabilities THEN l.catalog ELSE <<>>

-----------------------------------------------------------------------------
(* Discovery.                                                               *)

\* The libraries of a layout, each with the directory it is in.
Libraries(l) == UNION {{[dir |-> i, library |-> x] : x \in l[i]} : i \in DOMAIN l}

\* Within a directory the files are loaded by name.
FileOrder(p, q) == p.dir = q.dir /\ p.library.file < q.library.file

\* Mutant: the directories are read in the order they are configured.
load_dynamic_plugins_from_dirsInOrder(p, q) == p.dir < q.dir \/ FileOrder(p, q)

\* p is loaded before q: directories from the lowest priority to the highest.
load_dynamic_plugins_from_dirs(p, q) == p.dir > q.dir \/ FileOrder(p, q)

Domains == DOMAIN dynamic

HostInit ==
    /\ layout \in Layouts
    /\ pending = Libraries(layout)
    /\ dynamic = <<>> /\ warned = {} /\ conflicts = {}
    /\ disabled = {} /\ cached = NoRegistry /\ changes = 0
    /\ vault \in [SecretIds -> Kinds \cup {"missing"}]
    /\ call = [c \in Calls |-> [at |-> "free"]]

Extend(f, k, v) == [x \in DOMAIN f \cup {k} |-> IF x = k THEN v ELSE f[x]]

push_dynamic_plugin_conflicts(l) ==
    (IF l.domain \in Domains /\ dynamic[l.domain].plugin # l.plugin
     THEN {<<l.file, dynamic[l.domain].file>>} ELSE {})
    \cup (IF l.domain \in DOMAIN Builtins THEN {<<l.file, 0>>} ELSE {})

\* One turn of the loop of load_dynamic_plugins_from_dir.
LoadNext ==
    /\ \E p \in pending :
         LET l == p.library
         IN /\ \A q \in pending \ {p} : load_dynamic_plugins_from_dirs(p, q)
            /\ pending' = pending \ {p}
            /\ IF load(l) /\ l.domain \notin Reserved
               THEN /\ dynamic' = Extend(dynamic, l.domain, l)
                    /\ conflicts' = conflicts \cup push_dynamic_plugin_conflicts(l)
                    /\ cached' = NoRegistry
                    /\ UNCHANGED warned
               ELSE /\ warned' = warned \cup {l.file}
                    /\ UNCHANGED <<dynamic, conflicts, cached>>
    /\ UNCHANGED <<layout, disabled, vault, changes, call>>

Serving == pending = {}

\* plugins.enable and plugins.disable of this process: set_disabled_domains. The
\* settings are read once, when discovery has ended.
SetDisabled ==
    /\ Serving /\ changes < MaxChanges
    /\ \E d \in DOMAIN Builtins \cup Domains :
         LET after == IF d \in disabled THEN disabled \ {d} ELSE disabled \cup {d}
         IN /\ disabled' = after
            /\ call' = [c \in Calls |->
                 IF "domain" \in DOMAIN call[c]
                 THEN [call[c] EXCEPT !.barred = @ /\ call[c].domain \in after]
                 ELSE call[c]]
    /\ changes' = changes + 1
    /\ UNCHANGED <<layout, pending, dynamic, warned, conflicts, cached, vault>>

\* Another process changes the vault, or locks it.
VaultChanges ==
    /\ Serving /\ changes < MaxChanges
    /\ \E i \in SecretIds, k \in Kinds \cup {"missing", "locked"} : vault' = [vault EXCEPT ![i] = k]
    /\ changes' = changes + 1
    /\ UNCHANGED <<layout, pending, dynamic, warned, conflicts, disabled, cached, call>>

-----------------------------------------------------------------------------
(* Which plugin serves a domain.                                            *)

\* invoke_credentialed_into: a dynamic plugin before a builtin.
ByDomain(d) == IF d \in Domains THEN dynamic[d] ELSE Builtins[d]

\* list_registered_plugins: the builtins, overwritten by the dynamic ones.
list_registered_plugins ==
    [d \in DOMAIN Builtins \cup Domains |->
        [plugin |-> IF d \in Domains THEN dynamic[d] ELSE Builtins[d], enabled |-> d \notin disabled]]

Entries(p, route) ==
    {[id |-> Commands(p)[i].id, route |-> route, plugin |-> p, descriptor |-> Commands(p)[i]] :
        i \in DOMAIN Commands(p)}

\* Mutant: a builtin is listed beside the library that shadows it, the library's
\* commands winning.
ShadowedIgnored(entries) ==
    {e \in entries : e.route = "builtin" => ~ \E f \in entries : f.route = "dynamic" /\ f.id = e.id}
build_typed_registryShadowed ==
    LET all == UNION ({Entries(HostPlugins[d], "host") : d \in DOMAIN HostPlugins}
                      \cup {Entries(Builtins[d], "builtin") : d \in DOMAIN Builtins}
                      \cup {Entries(dynamic[d], "dynamic") : d \in Domains})
    IN [ok |-> TRUE, entries |-> ShadowedIgnored(all)]

\* One id of two plugins refuses the whole registry.
build_typed_registry ==
    LET all == UNION ({Entries(HostPlugins[d], "host") : d \in DOMAIN HostPlugins}
                      \cup {Entries(Builtins[d], "builtin") : d \in DOMAIN Builtins \ Domains}
                      \cup {Entries(dynamic[d], "dynamic") : d \in Domains})
    IN IF \E e, f \in all : e # f /\ e.id = f.id THEN NoRegistry ELSE [ok |-> TRUE, entries |-> all]

\* typed_registry: an error is not cached.
typed_registry == IF cached.ok THEN cached ELSE build_typed_registry

command_catalog_for_domain(d) ==
    {e \in typed_registry.entries : e.route # "host" /\ e.plugin.domain = d}

-----------------------------------------------------------------------------
(* A call.                                                                  *)

Ends(c, answer) == call' = [call EXCEPT ![c] = [at |-> "done", answer |-> answer]]

\* Ready to resolve `want` (slot -> id); resolved values go in `given`.
Prepared(c, ask, p, d, want, given, typed) ==
    call' = [call EXCEPT ![c] =
        [at |-> "resolving", ask |-> ask, plugin |-> p, domain |-> d, want |-> want, given |-> given,
         typed |-> typed, barred |-> d \in disabled]]

SlotNames(slots) == {slots[i].name : i \in DOMAIN slots}
RequiredSlots(slots) == {slots[i].name : i \in {j \in DOMAIN slots : slots[j].required}}
KindsOf(slots, name) == UNION {slots[i].kinds : i \in {j \in DOMAIN slots : slots[j].name = name}}

\* The MCP server's own check, then prepare_typed_request's.
ArgumentsAccepted(d, ask) ==
    /\ ask.arguments \subseteq mcp_input_schema(d)
    /\ ask.arguments \ (IF d.slots = <<>> THEN {} ELSE {"credentials"}) \subseteq d.properties
    /\ DOMAIN ask.credentials \subseteq SlotNames(d.slots)
    /\ RequiredSlots(d.slots) \subseteq DOMAIN ask.credentials

\* Mutant: what the caller put in resolved_secrets is kept where a command has no slots.
StrippedNever(d, ask) == IF d.slots = <<>> THEN ask.smuggled ELSE <<>>

\* prepare_typed_request drops what the caller put in resolved_secrets.
Stripped(d, ask) == <<>>

\* Mutant: a library's domain is not looked up in the settings.
AdmitsDisabledLibrary(e) == e.route \in {"host", "dynamic"} \/ e.plugin.domain \notin disabled

Admits(e) == e.route = "host" \/ e.plugin.domain \notin disabled

\* invoke_typed up to the first secret.
InvokeTyped(c) ==
    /\ Serving /\ call[c].at = "free"
    /\ \E ask \in {a \in Asks : a.kind = "typed"} :
         LET r == typed_registry
             found == {e \in r.entries : e.id = ask.command}
         IN /\ cached' = r
            /\ \/ ~ r.ok /\ Ends(c, "invalid_catalog")
               \/ r.ok /\ found = {} /\ Ends(c, "not_found")
               \/ \E e \in found :
                    \/ ~ Admits(e) /\ Ends(c, "disabled")
                    \/ Admits(e) /\ ~ ArgumentsAccepted(e.descriptor, ask) /\ Ends(c, "refused")
                    \/ /\ Admits(e) /\ ArgumentsAccepted(e.descriptor, ask)
                       /\ Prepared(c, ask, e.plugin, e.plugin.domain, ask.credentials,
                                   Stripped(e.descriptor, ask), e)
    /\ UNCHANGED <<layout, pending, dynamic, warned, conflicts, disabled, vault, changes>>

\* extract_credential_args: tokens are [t, slot, id, good], t one of word, sep,
\* flag (--credential, its value the next token) and joined (--credential=...).
CredentialAt(argv, i) ==
    LET open == \A j \in 1..(i - 1) : argv[j].t # "sep"
    IN IF ~ open THEN "none"
       ELSE CASE argv[i].t = "joined" -> "here"
              [] argv[i].t = "flag" -> "next"
              [] OTHER -> "none"
ValueOf(argv, i) ==
    IF CredentialAt(argv, i) = "next" THEN IF i < Len(argv) THEN argv[i + 1] ELSE [argv[i] EXCEPT !.good = FALSE]
    ELSE argv[i]
extract_credential_args(argv) ==
    LET at == {i \in DOMAIN argv : CredentialAt(argv, i) # "none"
                  /\ (i > 1 => CredentialAt(argv, i - 1) # "next")}
    IN [good |-> /\ \A i \in at : ValueOf(argv, i).good
                 /\ \A i, j \in at : i # j => ValueOf(argv, i).slot # ValueOf(argv, j).slot,
        want |-> [s \in {ValueOf(argv, i).slot : i \in at} |->
                    ValueOf(argv, CHOOSE i \in at : ValueOf(argv, i).slot = s).id]]

\* execution of an Invoke up to the first secret: the credentials are looked up before
\* the domain is.
InvokeLegacy(c) ==
    /\ Serving /\ \A o \in Calls : call[o].at = "free"
    /\ \E ask \in {a \in Asks : a.kind = "legacy"} :
         LET d == ask.command
             wanted == extract_credential_args(ask.argv)
             accepts == \E e \in command_catalog_for_domain(d) : e.descriptor.slots # <<>>
         IN /\ cached' = typed_registry
            /\ \/ /\ ~ wanted.good \/ (wanted.want # <<>> /\ ~ accepts)
                  /\ Ends(c, "refused")
               \/ /\ wanted.good /\ (wanted.want = <<>> \/ accepts)
                  /\ Prepared(c, ask, Nobody, d, wanted.want, <<>>, Untyped)
    /\ UNCHANGED <<layout, pending, dynamic, warned, conflicts, disabled, vault, changes>>

\* resolve and the check of its kind, one slot at a time.
Resolve(c) ==
    /\ call[c].at = "resolving"
    /\ \E s \in DOMAIN call[c].want \ DOMAIN call[c].given :
         LET kind == vault[call[c].want[s]]
         IN \/ kind \in {"missing", "locked"} /\ Ends(c, kind)
            \/ /\ kind \notin {"missing", "locked"} /\ call[c].typed # Untyped
               /\ kind \notin KindsOf(call[c].typed.descriptor.slots, s)
               /\ Ends(c, "kind_mismatch")
            \/ /\ kind \notin {"missing", "locked"}
               /\ call[c].typed # Untyped => kind \in KindsOf(call[c].typed.descriptor.slots, s)
               /\ call' = [call EXCEPT ![c].given = Extend(@, s, [id |-> call[c].want[s], kind |-> kind])]
    /\ UNCHANGED <<layout, pending, dynamic, warned, conflicts, disabled, cached, vault, changes>>

Resolved(c) == call[c].at = "resolving" /\ DOMAIN call[c].want \subseteq DOMAIN call[c].given

\* The rest of invoke_credentialed_into: the plugin of the domain, the settings, the tools.
FindOwner(c) ==
    /\ Resolved(c) /\ call[c].typed = Untyped /\ call[c].plugin = Nobody
    /\ LET d == call[c].domain
       IN \/ d \notin DOMAIN Builtins \cup Domains /\ Ends(c, "not_found")
          \/ d \in (DOMAIN Builtins \cup Domains) \cap disabled /\ Ends(c, "disabled")
          \/ /\ d \in (DOMAIN Builtins \cup Domains) \ disabled
             /\ call' = [call EXCEPT ![c].plugin = ByDomain(d)]
    /\ UNCHANGED <<layout, pending, dynamic, warned, conflicts, disabled, cached, vault, changes>>

\* preflight_required_tools, then the plugin runs.
Dispatch(c) ==
    /\ Resolved(c) /\ call[c].plugin # Nobody
    /\ \/ call[c].plugin.tools /\ Ends(c, "dependency_missing")
       \/ call' = [call EXCEPT ![c].at = "running"]
    /\ UNCHANGED <<layout, pending, dynamic, warned, conflicts, disabled, cached, vault, changes>>

\* What comes back: a library's panic is an answer of its own, and a response that
\* contradicts itself or its schema is not passed on.
validate_response(r) == CASE r = "ok" -> "ok" [] r \in {"failed", "panicked"} -> "failed" [] OTHER -> "invalid_response"
Answer(c) ==
    /\ call[c].at = "running"
    /\ \E r \in {"ok", "failed", "panicked", "ok_without_data", "failed_with_data", "off_schema", "null"} :
         /\ call[c].plugin.file = 0 => r \notin {"panicked", "null"}
         /\ IF call[c].typed = Untyped THEN Ends(c, IF r = "null" THEN "invalid_response" ELSE r)
            ELSE Ends(c, validate_response(r))
    /\ UNCHANGED <<layout, pending, dynamic, warned, conflicts, disabled, cached, vault, changes>>

CallStep(c) ==
    InvokeTyped(c) \/ InvokeLegacy(c) \/ Resolve(c) \/ FindOwner(c) \/ Dispatch(c) \/ Answer(c)

HostNext == LoadNext \/ SetDisabled \/ VaultChanges \/ \E c \in Calls : CallStep(c)

HostSpec == HostInit /\ [][HostNext]_hostVars

-----------------------------------------------------------------------------

\* The library the configuration prefers for a domain: in the first directory that
\* has a sound one, the last file that is.
Candidates(i, d) == {l \in layout[i] : load(l) /\ l.domain = d /\ d \notin Reserved}
Preferred(d) ==
    LET i == CHOOSE i \in DOMAIN layout : Candidates(i, d) # {} /\ \A j \in 1..(i - 1) : Candidates(j, d) = {}
    IN CHOOSE l \in Candidates(i, d) : \A k \in Candidates(i, d) : k.file <= l.file

\* Once the libraries are loaded, every way to a domain - the listing, a command line,
\* a typed command - leads to one plugin: the library of the configured directory that
\* comes first, else the builtin; so one command never runs in another plugin than the
\* next (manager.rs load_dynamic_plugins_from_dir, list_registered_plugins; invoke.rs
\* invoke_credentialed_into, build_typed_registry; lib.rs load_dynamic_plugins_from_dirs).
OneOwnerPerDomain ==
    Serving =>
        /\ \A d \in DOMAIN list_registered_plugins :
             /\ list_registered_plugins[d].plugin = ByDomain(d)
             /\ (\E i \in DOMAIN layout : Candidates(i, d) # {}) => ByDomain(d) = Preferred(d)
        /\ \A e \in typed_registry.entries : e.route # "host" => e.plugin = ByDomain(e.plugin.domain)
        /\ \A c \in Calls : call[c].at = "running" /\ call[c].domain \notin DOMAIN HostPlugins
                            => call[c].plugin = ByDomain(call[c].domain)

\* A call of a domain that is switched off before the call and stays off never reaches
\* the plugin, whichever way it came; the host's own commands cannot be switched off
\* (invoke.rs invoke_typed, invoke_credentialed_into; manager.rs set_disabled_domains).
DisabledStaysOut ==
    \A c \in Calls :
        call[c].at = "running" /\ call[c].barred => call[c].domain \in DOMAIN HostPlugins

\* A typed command is handed the secrets its request names, in the slots it declares
\* and of the kinds these accept, whatever the vault did meanwhile - and never a value
\* that the caller made up (invoke.rs prepare_typed_request).
SecretsAsDeclared ==
    \A c \in Calls : call[c].at = "running" /\ call[c].typed # Untyped =>
        /\ DOMAIN call[c].given = DOMAIN call[c].ask.credentials
        /\ \A s \in DOMAIN call[c].given :
             /\ s \in SlotNames(call[c].typed.descriptor.slots)
             /\ call[c].given[s].id = call[c].ask.credentials[s]
             /\ call[c].given[s].kind \in KindsOf(call[c].typed.descriptor.slots, s)

\* A call reaches the one plugin that owns its domain, unless the domain is disabled,
\* with the secrets it declares.
DispatchSound == OneOwnerPerDomain /\ DisabledStaysOut /\ SecretsAsDeclared

\* What docs/reference/plugins.md says of a library that cannot be used: it is skipped,
\* and the builtin plugins remain available.
BuiltinsRemainAvailable == Serving => typed_registry.ok
=============================================================================
