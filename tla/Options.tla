------------------------------- MODULE Options ------------------------------
(***************************************************************************)
(* taboo::Config and what taboo::Aside makes of it: options come from the  *)
(* command line, else from the configuration file, else from the table of  *)
(* initDesc, and are written to fields twice on the way.  boost's          *)
(* program_options is modelled from its use here.  The options that only   *)
(* go from the table to a field of their own are left out.                 *)
(***************************************************************************)
EXTENDS Naturals, Sequences, FiniteSets, Functions

CONSTANTS
  Unset,         \* a field nothing has written, an option without a value
  Refused,       \* a value that cannot be read
  IntBits,       \* width of int and uint32_t; size_t has twice as many bits
  UnitBits,      \* unit -> how far it shifts
  CommandLines,  \* [help, test, noFile : BOOLEAN, given : option -> text]
  Files          \* configuration files: option -> text

\* Units shift; what is given for an option is not Unset.
ASSUME OptionsAssumption ==
  /\ IntBits \in Nat \ {0}
  /\ "" \notin DOMAIN UnitBits /\ \A u \in DOMAIN UnitBits : UnitBits[u] \in Nat \ {0}
  /\ Unset \notin Nat /\ Unset # "token" /\ Unset # Refused /\ Refused \notin Nat
  /\ \A given \in {l.given : l \in CommandLines} \cup Files :
       \A o \in DOMAIN given : given[o] # Unset

\* A switch takes no value on a command line: it can only be turned on there.
ASSUME SwitchAssumption ==
  \A l \in CommandLines :
    "check-signature" \in DOMAIN l.given => l.given["check-signature"] = TRUE

\* Arithmetic: the powers of 2 that fit, as the proofs are given no law of "^".
ASSUME PowersAssumption ==
  \A n \in 0 .. 2 * IntBits \cup {UnitBits[u] : u \in DOMAIN UnitBits} :
    \A m \in 0 .. n : 2^m \in Nat \ {0} /\ 2^n = 2^m * 2^(n - m)

VARIABLES
  startup,       \* how far Config::init has come
  invocation,    \* command line and file of this start
  options,       \* po::variables_map: option -> [value, from]
  config         \* field -> value

optionVars == <<startup, invocation, options, config>>

-----------------------------------------------------------------------------
(* Quantities.  A text is [minus, number, unit], minus also standing for what
   is no number; its unit is "" or a letter. *)

\* Slip: a quantity that fills all the bits, and one more, is let through.
toIntegerOffByOne(text, width) ==
  LET bits == IF text.unit = "" THEN 0 ELSE UnitBits[text.unit]
  IN  {IF /\ ~ text.minus /\ text.unit \in DOMAIN UnitBits \cup {""}
          /\ bits <= width /\ text.number <= 2^(width - bits)
         THEN (text.number * 2^bits) % 2^width
         ELSE Refused}

\* 1 << bitsRemain is computed in int: past its width the processor masks the
\* count, and a compiler that sees the count may make it 0.
Max1(bitsRemain) ==
  IF bitsRemain < IntBits THEN {2^bitsRemain} ELSE {2^(bitsRemain % IntBits), 0}

\* toInteger for an unsigned type of some width: the values it may return.
toInteger(text, width) ==
  LET read == ~ text.minus /\ text.number \in 0 .. 2^width - 1
      bits == UnitBits[text.unit]
  IN  CASE read /\ text.unit = "" -> {text.number}
        [] read /\ text.unit \in DOMAIN UnitBits /\ bits <= width ->
             {IF text.number < max THEN (text.number * 2^bits) % 2^width ELSE Refused :
                max \in Max1(width - bits)}
        [] OTHER -> {Refused}

-----------------------------------------------------------------------------
(* The table of options, in the order program_options notifies them *)

Row(option, field, kind, default) ==
  [option |-> option, field |-> field, kind |-> kind, default |-> default]

initDesc == <<
  Row("check-signature",             "checkSign",          "switch", TRUE),
  Row("connection-max-idle",         "itemsAllocStep",     "plain",  72),
  Row("default-matches",             "defaultMatches",     "int",    1),
  Row("items-allocate-step",         "itemsAllocStep",     "size",   100),
  Row("key-manage-response-expire",  "keyMDPayload",       "plain",  "expire"),
  Row("key-manage-response-payload", "keyMDPayload",       "plain",  "data"),
  Row("key-manage-response-token",   "keyMDPayload",       "plain",  "token"),
  Row("manage-key",                  "manageKey",          "plain",  Unset),
  Row("manage-secret",               "manageSecret",       "plain",  Unset),
  Row("max-matches",                 "maxMatches",         "int",    2),
  Row("query-data-max-bytes",        "queryDataMaxSize",   "size",   40),
  Row("query-invisible-fields",      "queryInvisibleFields", "list", <<>>),
  Row("query-visible-fields",        "queryVisibleFields", "list",   <<"*">>) >>

OptionNames == {initDesc[i].option : i \in DOMAIN initDesc}
RowOf(option) == initDesc[CHOOSE i \in DOMAIN initDesc : initDesc[i].option = option]

Fields == {initDesc[i].field : i \in DOMAIN initDesc}
            \cup {"connectionMaxIdle", "keyMDToken", "keyMDTokenExpire", "queryVisibleAll"}

Widths == [int |-> IntBits, size |-> 2 * IntBits]

\* validate: the values an option may get from a text.
validate(option, text) ==
  LET kind == RowOf(option).kind
  IN  IF kind \in DOMAIN Widths THEN toInteger(text, Widths[kind]) ELSE {text}

\* What may be read from a source: quantities may be read in two ways.
Parsed(given) ==
  LET quantities == {o \in DOMAIN given : RowOf(o).kind \in DOMAIN Widths}
      read == [quantities -> UNION {validate(o, given[o]) : o \in quantities}]
  IN  {[o \in DOMAIN given |-> IF o \in quantities THEN q[o] ELSE given[o]] :
         q \in {q \in read : \A o \in quantities : q[o] \in validate(o, given[o])}}

Readable(parsed) == \A o \in DOMAIN parsed : parsed[o] # Refused

\* Slip: what is stored later wins.
OpenAll(map, given) == given

\* po::store passes over an option that an earlier store has a value for, and does
\* not read what it is given now.
Open(map, given) == Restrict(given, {o \in DOMAIN given : map[o].from = "default"})

store(map, parsed, from) ==
  [o \in OptionNames |-> IF o \in DOMAIN parsed THEN [value |-> parsed[o], from |-> from]
                                                ELSE map[o]]

\* po::notify writes each option that has a value to its field, in the order of
\* the table; the fields of the two lists are written by loadOptions.
notify(map, fields) ==
  [f \in Fields |->
     LET writers == {i \in DOMAIN initDesc :
                       /\ initDesc[i].field = f /\ initDesc[i].kind # "list"
                       /\ map[initDesc[i].option].value # Unset}
     IN  IF writers = {} THEN fields[f]
         ELSE map[initDesc[CHOOSE i \in writers : \A j \in writers : j <= i].option].value]

OptionsInit ==
  /\ startup = "command_line"
  /\ invocation \in {[line |-> l, file |-> f] : l \in CommandLines, f \in Files}
  /\ options = [o \in OptionNames |-> [value |-> RowOf(o).default, from |-> "default"]]
  /\ config = [f \in Fields |-> Unset]

StoreCommandLine ==
  /\ startup = "command_line"
  /\ \E parsed \in Parsed(Open(options, invocation.line.given)) :
       IF ~ Readable(parsed)
         THEN startup' = "exit_failure" /\ UNCHANGED <<options, config>>
         ELSE /\ options' = store(options, parsed, "command_line")
              /\ config' = notify(options', config)
              /\ startup' = CASE invocation.line.help -> "exit_success"
                              [] ~ invocation.line.help /\ invocation.line.noFile -> "load"
                              [] OTHER -> "file"
  /\ UNCHANGED invocation

\* Slip: no notify after the file is stored.
loadFileUnnotified ==
  /\ startup = "file"
  /\ \E parsed \in Parsed(Open(options, invocation.file)) :
       IF ~ Readable(parsed)
         THEN startup' = "exit_failure" /\ UNCHANGED options
         ELSE options' = store(options, parsed, "file") /\ startup' = "load"
  /\ UNCHANGED <<invocation, config>>

loadFile ==
  /\ startup = "file"
  /\ \E parsed \in Parsed(Open(options, invocation.file)) :
       IF ~ Readable(parsed)
         THEN startup' = "exit_failure" /\ UNCHANGED <<options, config>>
         ELSE /\ options' = store(options, parsed, "file")
              /\ config' = notify(options', config)
              /\ startup' = "load"
  /\ UNCHANGED invocation

\* boost::split makes one empty segment of the empty string.
series(text) == IF text = <<>> THEN << "" >> ELSE text

Signable == options["manage-key"].value \notin {Unset, ""}
              /\ options["manage-secret"].value \notin {Unset, ""}

loadOptions ==
  /\ startup = "load"
  /\ IF config.checkSign /\ ~ Signable
       THEN startup' = "exit_failure" /\ UNCHANGED config
       ELSE LET visible    == series(options["query-visible-fields"].value)
                visibleAll == visible = << "*" >>
                invisible  == IF visibleAll
                                THEN series(options["query-invisible-fields"].value) ELSE <<>>
            IN  /\ config' = [config EXCEPT
                     !.queryVisibleFields = visible,
                     !.queryInvisibleFields = invisible,
                     !.queryVisibleAll = visibleAll /\ invisible = <<>>]
                /\ startup' = IF invocation.line.test THEN "exit_success" ELSE "ready"
  /\ UNCHANGED <<invocation, options>>

StartupNext == StoreCommandLine \/ loadFile \/ loadOptions

\* The constructor of Aside: the fields clients may see, and may not.
queryVisibleFields ==
  IF config.queryVisibleAll \/ config.queryVisibleFields = << "*" >>
    THEN {} ELSE Range(config.queryVisibleFields)
queryInvisibleFields ==
  IF config.queryVisibleAll THEN {} ELSE Range(config.queryInvisibleFields)
=============================================================================
