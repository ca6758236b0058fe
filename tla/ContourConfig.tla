---------------------------- MODULE ContourConfig ----------------------------
(***************************************************************************)
(* How `contour serve` arrives at the configuration it runs with: the      *)
(* command line is parsed, a file named on it is loaded and validated by a  *)
(* parse action, the command line is parsed a second time so that flags     *)
(* win, the result (or a ContourConfiguration resource instead of it) is    *)
(* converted to a ContourConfigurationSpec, overlaid on the defaults and    *)
(* validated, and doServe derives the namespaces to watch from it.          *)
(* A setting's value is a string; Zero is the zero value of its Go type     *)
(* (the empty string, 0, false, a nil pointer).  `given` is what the        *)
(* operator wrote down; Restart changes one entry and starts Contour again. *)
(***************************************************************************)
EXTENDS Naturals, FiniteSets

CONSTANTS
    Entries,     \* what may be given: records [src, key, value]
    MaxGiven     \* bound on the number of entries given at once

VARIABLES
    given,       \* the entries given, at most one for each source and key
    outcome      \* what the last start did with them

configVars == <<given, outcome>>

Zero == ""

\* Flags whose variable is a field of serveContext, and those whose variable
\* is a field of its Config (and so is replaced when a file is loaded).
CtxKeys == {"httpPort", "healthPort", "metricsPort", "statsPort", "caFile",
            "certFile", "keyFile", "rootNamespaces", "watchNamespaces"}
ConfigFlags == {"accessLogFormat", "envoyService"}

\* What a configuration file may say, the two above included.
FileKeys == ConfigFlags \cup
    {"accessLogLevel", "httpVersions", "dnsFamily", "xdsServerType",
     "serverHeader", "requestTimeout", "idleTimeout", "connectTimeout",
     "tlsMin", "tlsMax", "ciphers", "adminPort", "metricsPort",
     "metricsTLS", "envoyMetricsPort", "envoyMetricsTLS", "fallback", "client",
     "gateway", "tracing", "rateLimit", "extAuth", "headers", "bufferLimit"}

\* The settings of a ContourConfigurationSpec.
SpecKeys ==
    FileKeys \cup (CtxKeys \ {"statsPort", "watchNamespaces"}) \cup {"envoyHealthPort"}

\* What the operator can write down.  An environment variable that is empty is
\* taken for one that is not set.
ASSUME EntriesAssumption ==
    \A e \in Entries :
        \/ e.src = "flag" /\ e.key \in CtxKeys \cup ConfigFlags
        \/ e.src = "env" /\ e.key \in {"caFile", "certFile", "keyFile"} /\ e.value # Zero
        \/ /\ e.src = "file" /\ e.key \in FileKeys
           /\ e.key \in {"metricsTLS", "envoyMetricsTLS"} => e.value \in {Zero, "pair", "cert", "ca"}
        \/ e.src = "crd" /\ e.key \in SpecKeys

Filled(keys, values) ==
    [k \in keys |-> IF k \in DOMAIN values THEN values[k] ELSE Zero]

\* The entries of one source, as a function from the keys it gives.
From(entries, src) ==
    LET of == {e \in entries : e.src = src}
    IN  [k \in {e.key : e \in of} |-> (CHOOSE e \in of : e.key = k).value]

Only(f, keys) == [k \in DOMAIN f \cap keys |-> f[k]]

\* What f says, and for the rest what g says.
Over(f, g) == [k \in DOMAIN f \cup DOMAIN g |-> IF k \in DOMAIN f THEN f[k] ELSE g[k]]

\* The Config of newServeContext and of a file that says nothing.
Defaults == Filled(FileKeys,
    [xdsServerType |-> "envoy", accessLogFormat |-> "envoy",
     accessLogLevel |-> "info", serverHeader |-> "overwrite",
     idleTimeout |-> "60s", connectTimeout |-> "2s",
     envoyService |-> "projectcontour/envoy", dnsFamily |-> "auto",
     adminPort |-> "9001"])

newServeContext ==
    [ctx |-> Filled(CtxKeys, [httpPort |-> "8080", healthPort |-> "8000",
                              metricsPort |-> "8000", statsPort |-> "8002"]),
     config |-> Defaults,
     parsed |-> FALSE]

-----------------------------------------------------------------------------
(* The configuration file. *)

\* Parse starts from the defaults and lower-cases the HTTP versions.
ToLower(v) == IF v = "HTTP/2" THEN "http/2" ELSE v
Parse(file) ==
    LET conf == Over(file, Defaults)
    IN  [conf EXCEPT !.httpVersions = ToLower(@)]

AccessLogTypes    == {"envoy", "json"}
AccessLogLevels   == {"info", "error", "critical", "disabled"}
DNSFamilies       == {"auto", "v4", "v6", "all"}
ServerTypes       == {"contour", "envoy"}
ServerHeaders     == {"overwrite", "append_if_absent", "pass_through"}
ValidTLSCiphers   == {"cipher1", "cipher2"}
Durations         == {"2s", "60s"}
Unlimited         == {"infinity"}

ValidateTLSProtocolVersions(min, max) ==
    LET minVer == IF min = Zero THEN "1.2" ELSE min
        maxVer == IF max = Zero THEN "1.3" ELSE max
    IN  /\ {minVer, maxVer} \subseteq {"1.2", "1.3"}
        /\ ~(maxVer = "1.2" /\ minVer = "1.3")

\* "ns/name" with a part missing is "ns/" or "/name".
NamespaceOf == [r \in {"n1/cert", "n1/", "n2/cert"} |-> IF r = "n2/cert" THEN "n2" ELSE "n1"]
NameGiven(r) == r \in {"n1/cert", "n2/cert", "/cert"}
NamespacedNameValid(r) == r = Zero \/ (NameGiven(r) /\ r \in DOMAIN NamespaceOf)

TimeoutsValid(p) ==
    /\ {p.requestTimeout, p.idleTimeout} \subseteq {Zero} \cup Unlimited \cup Durations
    /\ p.connectTimeout \in {Zero} \cup Durations

TLSValid(p) ==
    /\ NamespacedNameValid(p.fallback)
    /\ NamespacedNameValid(p.client)
    /\ p.ciphers \in {Zero} \cup ValidTLSCiphers
    /\ ValidateTLSProtocolVersions(p.tlsMin, p.tlsMax)

\* The certificate, key and CA paths of a metrics server: "pair" has the
\* first two, "cert" lacks the key and "ca" has neither.
HasTLS(paths)   == paths = "pair"
MetricsValid(p) == {p.metricsTLS, p.envoyMetricsTLS} \cap {"cert", "ca"} = {}

\* A tracing section without an extension service or with two tags of one
\* name; its sampling rate is not looked at here.
TracingValid(p) == p.tracing \notin {"unnamed", "twice"}

HeadersValid(p) == p.headers # "bad"
LimitsValid(p)  == p.bufferLimit # "0"

ParametersValidate(p) ==
    /\ p.dnsFamily \in DNSFamilies
    /\ p.xdsServerType \in ServerTypes
    /\ p.gateway # "incomplete"
    /\ p.accessLogFormat \in AccessLogTypes
    /\ p.accessLogLevel \in AccessLogLevels
    /\ TLSValid(p)
    /\ TimeoutsValid(p)
    /\ HeadersValid(p)
    /\ p.httpVersions \in {Zero, "http/1.1", "http/2"}
    /\ MetricsValid(p)
    /\ TracingValid(p)
    /\ LimitsValid(p)

-----------------------------------------------------------------------------
(* The command line. *)

FileGiven(entries) == \E e \in entries : e.src = "file"
CrdNamed(entries)  == \E e \in entries : e.src = "crd"

\* One parse: each flag given, or else its environment variable, is stored in
\* the variable it is bound to.
AppParse(c, entries) ==
    LET args == Over(From(entries, "flag"), From(entries, "env"))
    IN  [ctx |-> Over(Only(args, CtxKeys), c.ctx),
         config |-> Over(Only(args, ConfigFlags), c.config),
         parsed |-> c.parsed]

\* The action of -c and --contour-config-name, run after each parse.
parseConfig(c, entries) ==
    LET conf == Parse(From(entries, "file"))
    IN  IF FileGiven(entries) /\ CrdNamed(entries) THEN [ok |-> FALSE, c |-> c]
        ELSE IF c.parsed \/ ~FileGiven(entries) THEN [ok |-> TRUE, c |-> c]
        ELSE IF ~ParametersValidate(conf) THEN [ok |-> FALSE, c |-> c]
        ELSE [ok |-> TRUE, c |-> [ctx |-> c.ctx, config |-> conf, parsed |-> TRUE]]

\* Mutant: the arguments are parsed once, so the file overwrites flags.
Main_ParsesOnce(entries) ==
    LET first == parseConfig(AppParse(newServeContext, entries), entries)
    IN  [ok |-> first.ok /\ ParametersValidate(first.c.config), c |-> first.c]

\* main parses the arguments twice and validates what came of it.
Main(entries) ==
    LET first  == parseConfig(AppParse(newServeContext, entries), entries)
        second == parseConfig(AppParse(first.c, entries), entries)
    IN  [ok |-> first.ok /\ second.ok /\ ParametersValidate(second.c.config),
         c |-> second.c]

-----------------------------------------------------------------------------
(* The specification Contour runs with. *)

OneOf(v, values) == IF v \in values THEN v ELSE Zero

HTTPVersionOf(v) ==
    CASE v = "http/1.1" -> "HTTP/1.1" [] v = "http/2" -> "HTTP/2" [] OTHER -> Zero

\* A metrics port of the file replaces the one of the flag or its default.
MetricsPort(fromFile, fromFlag) ==
    IF fromFile \in {Zero, "0"} THEN fromFlag ELSE fromFile
MetricsTLS(paths) == IF HasTLS(paths) THEN paths ELSE Zero

\* The rate limit and the authorization section are dropped unless they name
\* an extension service.
NamedSection(v) == IF v = "unnamed" THEN Zero ELSE v

\* The settings that are not carried over as they are.
Converted(c) ==
    LET conf == c.config
    IN  [accessLogFormat  |-> OneOf(conf.accessLogFormat, AccessLogTypes),
         accessLogLevel   |-> OneOf(conf.accessLogLevel, AccessLogLevels),
         dnsFamily        |-> OneOf(conf.dnsFamily, DNSFamilies),
         serverHeader     |-> OneOf(conf.serverHeader, ServerHeaders),
         httpVersions     |-> HTTPVersionOf(conf.httpVersions),
         xdsServerType    |-> IF conf.xdsServerType = "envoy" THEN "envoy" ELSE "contour",
         fallback         |-> IF NameGiven(conf.fallback) THEN conf.fallback ELSE Zero,
         client           |-> IF NameGiven(conf.client) THEN conf.client ELSE Zero,
         rateLimit        |-> NamedSection(conf.rateLimit),
         extAuth          |-> NamedSection(conf.extAuth),
         metricsPort      |-> MetricsPort(conf.metricsPort, c.ctx.metricsPort),
         metricsTLS       |-> MetricsTLS(conf.metricsTLS),
         envoyMetricsPort |-> MetricsPort(conf.envoyMetricsPort, c.ctx.statsPort),
         envoyMetricsTLS  |-> MetricsTLS(conf.envoyMetricsTLS),
         envoyHealthPort  |-> c.ctx.statsPort]

convertToContourConfigurationSpec(c) ==
    Over(Converted(c), Over(Only(c.ctx, SpecKeys), c.config))

\* contourconfig.Defaults.
SpecDefaults == Filled(SpecKeys,
    [xdsServerType |-> "envoy", caFile |-> "/certs/ca.crt",
     certFile |-> "/certs/tls.crt", keyFile |-> "/certs/tls.key",
     healthPort |-> "8000", serverHeader |-> "overwrite", tlsMin |-> "1.2",
     tlsMax |-> "1.3", ciphers |-> "cipher1",
     envoyService |-> "projectcontour/envoy", httpPort |-> "8080",
     envoyHealthPort |-> "8002", envoyMetricsPort |-> "8002",
     accessLogFormat |-> "envoy", accessLogLevel |-> "info",
     httpVersions |-> "both", dnsFamily |-> "auto", adminPort |-> "9001",
     metricsPort |-> "8000"])

\* mergo.Merge with override: a value that is empty, or a pointer to one,
\* leaves a default that is not nil alone.
IsEmpty(v) == v \in {Zero, "0"}
OverlayOnDefaults(spec) ==
    [k \in SpecKeys |-> IF SpecDefaults[k] # Zero /\ IsEmpty(spec[k])
                        THEN SpecDefaults[k] ELSE spec[k]]

endpointsInConfict(healthPort, metricsPort, metricsTLS) ==
    metricsTLS # Zero /\ healthPort = metricsPort

EnvoyValidate(s) ==
    /\ ~endpointsInConfict(s.envoyHealthPort, s.envoyMetricsPort, s.envoyMetricsTLS)
    /\ s.accessLogFormat \in AccessLogTypes
    /\ s.httpVersions \in {"both", "HTTP/1.1", "HTTP/2"}
    /\ s.dnsFamily \in DNSFamilies
    /\ ValidateTLSProtocolVersions(s.tlsMin, s.tlsMax)
    /\ s.ciphers \in ValidTLSCiphers

TracingConfigValidate(s) == s.tracing \notin {"unnamed", "twice", "badSampling"}

SpecValidate(s) ==
    /\ ~endpointsInConfict(s.healthPort, s.metricsPort, s.metricsTLS)
    /\ s.xdsServerType \in ServerTypes
    /\ EnvoyValidate(s)
    /\ s.gateway # "incomplete"
    /\ TracingConfigValidate(s)

getConfig(c, entries) ==
    LET user == IF CrdNamed(entries) THEN Filled(SpecKeys, From(entries, "crd"))
                ELSE convertToContourConfigurationSpec(c)
        full == OverlayOnDefaults(user)
    IN  [ok |-> SpecValidate(full), spec |-> full]

-----------------------------------------------------------------------------
(* doServe. *)

\* A list of namespaces is split at commas and each part trimmed.
NamespacesIn == [list \in {Zero, "n1", "n1, n2"} |->
                   CASE list = "n1" -> {"n1"} [] list = "n1, n2" -> {"n1", "n2"} [] OTHER -> {}]
watchedNamespaces(c)   == NamespacesIn[c.ctx.watchNamespaces]
proxyRootNamespaces(s) == NamespacesIn[s.rootNamespaces]

\* The namespaces of the certificates the configuration itself names.
CertificateNamespaces(s) ==
    {NamespaceOf[r] : r \in {s.fallback, s.client} \ {Zero}}

NamespacesWatched(watched, s) ==
    watched # {} => proxyRootNamespaces(s) \cup CertificateNamespaces(s) \subseteq watched

\* Mutant: only the root namespaces get a Secret informer.
secretNamespaces_RootsOnly(s) == proxyRootNamespaces(s)

\* The namespaces of the Secret informers; none stands for all of them.
secretNamespaces(s) ==
    IF proxyRootNamespaces(s) = {} THEN {}
    ELSE proxyRootNamespaces(s) \cup CertificateNamespaces(s)

\* A duration, no limit, or the default for an empty or zero string.
ParseTimeoutPolicy(s) ==
    /\ {s.requestTimeout, s.idleTimeout} \subseteq {Zero} \cup Unlimited \cup Durations
    /\ s.connectTimeout \in {Zero} \cup Durations

verifyTLSFlags(s) == Zero \notin {s.caFile, s.certFile, s.keyFile}

\* NewListenerCache serves Envoy's admin interface on a port other than 0.
AdminListener(s) == ~IsEmpty(s.adminPort)

Stopped == [serving |-> FALSE, spec |-> SpecDefaults, watched |-> {},
            secrets |-> {}, admin |-> FALSE]

Serve(entries) ==
    LET main == Main(entries)
        conf == getConfig(main.c, entries)
        s    == conf.spec
    IN  IF /\ main.ok
           /\ conf.ok
           /\ NamespacesWatched(watchedNamespaces(main.c), s)
           /\ ParseTimeoutPolicy(s)
           /\ verifyTLSFlags(s)
        THEN [serving |-> TRUE, spec |-> s,
              watched |-> watchedNamespaces(main.c),
              secrets |-> secretNamespaces(s), admin |-> AdminListener(s)]
        ELSE Stopped

ConfigInit == given = {} /\ outcome = Serve({})

Restart(e) ==
    /\ given' = IF e \in given THEN given \ {e}
                ELSE {g \in given : ~(g.src = e.src /\ g.key = e.key)} \cup {e}
    /\ Cardinality(given') <= MaxGiven
    /\ outcome' = Serve(given')

ConfigNext == \E e \in Entries : Restart(e)

ConfigSpec == ConfigInit /\ [][ConfigNext]_configVars

-----------------------------------------------------------------------------
(* What an entry of the file means to the settings of the specification. *)

Means(e) ==
    CASE e.src = "file" /\ e.key = "httpVersions" -> HTTPVersionOf(ToLower(e.value))
      [] e.src = "file" /\ e.key = "serverHeader" -> OneOf(e.value, ServerHeaders)
      [] e.src = "file" /\ e.key \in {"rateLimit", "extAuth"} -> NamedSection(e.value)
      [] OTHER -> e.value

\* The settings a flag of the name decides.
Sets(key) == IF key = "statsPort" THEN {"envoyHealthPort", "envoyMetricsPort"} ELSE {key}

\* The entries of a source that are about a setting.
About(entries, src, k) == {e \in entries : e.src = src /\ k \in Sets(e.key)}

First(a, b) == IF a # {} THEN a ELSE b

\* What a setting without an entry is.
Unsaid(entries, k) ==
    IF CrdNamed(entries) \/ k \notin FileKeys \/ Defaults[k] = Zero THEN SpecDefaults[k] ELSE Defaults[k]

\* An empty value is as good as none to a setting that has a default.
OrDefault(k, v) == IF IsEmpty(v) /\ SpecDefaults[k] # Zero THEN SpecDefaults[k] ELSE v

\* The values a setting may have: what the ContourConfiguration resource alone
\* says when there is one, and otherwise a flag before its environment variable
\* before the file.  For the ports of the metrics servers the file comes first,
\* unless it has an empty one.
Allowed(entries, k) ==
    LET flags == First(About(entries, "flag", k), About(entries, "env", k))
        file  == About(entries, "file", k)
        said  == IF CrdNamed(entries) THEN About(entries, "crd", k)
                 ELSE IF k \in {"metricsPort", "envoyMetricsPort"}
                 THEN First({e \in file : ~IsEmpty(e.value)}, flags)
                 ELSE First(flags, file)
    IN  IF said = {} THEN {Unsaid(entries, k)} ELSE {OrDefault(k, Means(e)) : e \in said}

\* A running Contour uses, for every setting, what the most authoritative
\* source with an entry for it says, and the default when none of them has an
\* entry or the entry is empty (registerServe's comment, and the second parse
\* in main that makes it true although loading the file overwrites flags
\* already parsed).
Precedence ==
    outcome.serving => \A k \in SpecKeys : outcome.spec[k] \in Allowed(given, k)

\* A running Contour has a Secret informer for every namespace its own
\* configuration takes certificates from and for every root namespace, and
\* none of them is outside the namespaces it was told to watch: doServe
\* derives the two sets separately, from flags, file and resource together.
SecretsReachable ==
    outcome.serving =>
        LET needed == proxyRootNamespaces(outcome.spec)
                      \cup CertificateNamespaces(outcome.spec)
        IN  /\ outcome.secrets = {} \/ needed \subseteq outcome.secrets
            /\ outcome.watched # {} =>
                  needed \cup outcome.secrets \subseteq outcome.watched

\* "If configured to port "0" then the admin interface is disabled"
\* (contourconfig.go): OverlayOnDefaults takes the 0 for no setting.
AdminPortZeroDisables ==
    outcome.serving =>
        ("0" \in {e.value : e \in {g \in given : g.key = "adminPort"}} => ~outcome.admin)
=============================================================================
