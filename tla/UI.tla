---------------------------------- MODULE UI --------------------------------
(* An operator's browser tab (internal/ui/handlers.go): besides the pages of *)
(* Views, the form that creates a mute, prefilled from a link, from the      *)
(* clock and from a header, edited, submitted, and shown again when it is    *)
(* refused; and the tab of the expired alerts.                               *)
EXTENDS Views

S == INSTANCE SequencesExt

CONSTANTS
    Links,               \* the match.<name>=<value> parameters of links
    Texts,               \* what operators type as matchers, as tokens
    Spaced,              \* label values with a space in them, also around them
    Fields,              \* what strings.Fields makes of such a value
    Users,               \* values of the user header, "" without one
    Minute, Hour         \* of the clock

NameOrNone  == LabelNames \cup {""}
ValueOrNone == LabelValues \cup {""}

\* key=value; the name is "" in a token without a key or without a '='.
Tokens == [name : NameOrNone, value : ValueOrNone]

ASSUME LinksAssumption ==
    /\ Links \subseteq UNION {[N -> ValueOrNone] : N \in SUBSET LabelNames}
    /\ \A query \in Links : IsFiniteSet(DOMAIN query)
ASSUME TextsAssumption == Texts \subseteq Seq(Tokens)
ASSUME FieldsAssumption ==
    Fields \in [Spaced -> [first : ValueOrNone, rest : Seq(Tokens)]]
ASSUME MinuteAssumption ==
    Minute \in Nat \ {0} /\ Hour \in Nat \ {0} /\ Hour % Minute = 0

VARIABLES
    form,                \* the form the tab shows, or none
    \* auxiliary
    link                 \* the link the form came from

formVars == <<form, link>>

NoForm == [open |-> FALSE]

Forms ==
    [open : {TRUE}, text : Seq(Tokens), startsAt : Nat, endsAt : Nat,
     createdBy : Users \cup {""}]

UITypeOK ==
    /\ ViewsTypeOK
    /\ form = NoForm \/ form \in Forms
    /\ link \in Links \cup {<<>>}
-----------------------------------------------------------------------------
(* What the form is filled with and what its fields are read as.             *)

\* A slip: rounded up.
FormattedUp(t) == t + ((Minute - ((t - 1) % Minute)) % Minute)

\* Format(DTLayout) drops the seconds; the clock starts on a full minute.
Formatted(t) == t - ((t - 1) % Minute)

\* strings.Fields of name=value: of a value with a space in it only the first
\* field stays with the name, and each further one is a token of its own.
FieldsOf(name, value) ==
    IF value \in Spaced
    THEN <<[name |-> name, value |-> Fields[value].first]>> \o Fields[value].rest
    ELSE <<[name |-> name, value |-> value]>>

\* Parameters without a name or a value are left out.
GivenIn(query) == {name \in DOMAIN query : name # "" /\ query[name] # ""}

\* Sorted in the code; here in some order, on which no property rests.
NamesIn(query) == S!SetToSeq(GivenIn(query))

\* A slip: the prefix left on the names.
TextWithPrefix(query) ==
    LET names == NamesIn(query) IN
    S!FlattenSeq([i \in DOMAIN names |-> FieldsOf("match." \o names[i], query[names[i]])])

matchersTextFromQuery(query) ==
    LET names == NamesIn(query) IN
    S!FlattenSeq([i \in DOMAIN names |-> FieldsOf(names[i], query[names[i]])])

\* A slip: a '=' at the end let through.
WellFormedButValue(text) == text # <<>> /\ \A i \in DOMAIN text : text[i].name # ""

WellFormed(text) ==
    text # <<>> /\ \A i \in DOMAIN text : text[i].name # "" /\ text[i].value # ""

\* Of two tokens with one name the later one counts.
parseMatchersText(text) ==
    [name \in {text[i].name : i \in DOMAIN text} |->
        text[S!Max({i \in DOMAIN text : text[i].name = name})].value]

\* The form's own value unless it is blank; then the proxy's header.
CreatedBy(typed, header) == IF typed = "" THEN header ELSE typed
-----------------------------------------------------------------------------
(* The form.                                                                 *)

\* muteNewForm reads the clock for the start and once more for the end.
OpenForm ==
    /\ place = "closed" /\ form = NoForm
    /\ \E query \in Links : \E header \in Users : \E t1, t2 \in {clock - 1, clock} \ {0} :
          /\ t1 <= t2
          /\ link' = query
          /\ form' = [open      |-> TRUE,
                      text      |-> matchersTextFromQuery(query),
                      startsAt  |-> Formatted(t1),
                      endsAt    |-> Formatted(t2 + Hour),
                      createdBy |-> header]
    /\ UNCHANGED <<clock, tableVars, pageVars, steady>>

\* What is in the form when it is submitted: one field may have been changed or
\* cleared. A time that is no time is read as zero.
Filled ==
    {form, [form EXCEPT !.createdBy = ""], [form EXCEPT !.endsAt = ZeroTime]}
      \cup {[form EXCEPT !.text = text] : text \in Texts}

Request(filled, header) ==
    [matchers |-> parseMatchersText(filled.text),
     startsAt |-> filled.startsAt, endsAt |-> filled.endsAt,
     comment  |-> "why", createdBy |-> CreatedBy(filled.createdBy, header)]

Accepted(filled, header) ==
    WellFormed(filled.text) /\ ValidateMuteCreate(Request(filled, header))

CloseForm == form' = NoForm /\ link' = <<>>

\* 303 to the mutes page, or 500 when the insert fails.
SubmitForm ==
    /\ form # NoForm
    /\ \E filled \in Filled : \E header \in Users :
          /\ Accepted(filled, header)
          /\ CreateMute(Request(filled, header)) \/ UNCHANGED muteVars
    /\ CloseForm
    /\ UNCHANGED <<clock, observed, pageVars>>
    /\ KeepSteady

\* The form is shown again with what was submitted, and the reason.
RefuseForm ==
    /\ form # NoForm
    /\ \E filled \in Filled : \E header \in Users :
          /\ ~Accepted(filled, header)
          /\ form' = [filled EXCEPT !.createdBy = CreatedBy(@, header)]
    /\ UNCHANGED <<clock, tableVars, pageVars, steady, link>>

LeaveForm ==
    /\ form # NoForm
    /\ CloseForm
    /\ UNCHANGED <<clock, tableVars, pageVars, steady>>

UIInit == Init /\ form = NoForm /\ link = <<>>

UINext ==
    \/ form = NoForm /\ Page /\ UNCHANGED formVars
    \/ (UpsertAny \/ CreateAny \/ ExpireAny \/ Tick) /\ UNCHANGED formVars
    \/ OpenForm \/ SubmitForm \/ RefuseForm \/ LeaveForm

UISpec == UIInit /\ [][UINext]_<<vars, formVars>>
-----------------------------------------------------------------------------
(* The expired tab.                                                          *)

\* A slip: an alert that ends right now left out.
ExpiredBefore(fp, t) == observed[fp].endsAt # ZeroTime /\ observed[fp].endsAt < t

\* ends_at IS NOT NULL AND ends_at <= now
Expired(fp, t) == observed[fp].endsAt # ZeroTime /\ observed[fp].endsAt <= t

\* alertsList, expired tab: mutes do not matter.
ExpiredTab(t) == Newest({fp \in DOMAIN observed : Expired(fp, t)})

\* An alert is on the expired tab, but for the rows past the limit, just when a
\* webhook sent now would call it resolved, and on the firing tab never then:
\* the columns are compared in SQL, the payload's times in Go.
TabsFollowWebhook ==
    \A expired \in ExpiredTab(clock) : \A fp \in DOMAIN observed :
        IF AlertStatus(observed[fp], clock) = "resolved"
        THEN /\ fp \in expired \/ Full(expired)
             /\ \A firing \in FiringTab(clock) : fp \notin firing
        ELSE fp \notin expired

\* The mute a step of the form creates.
Submitted(m) == form # NoForm /\ form' = NoForm /\ mutes' = mutes \cup {m} /\ m \notin mutes

\* A form nobody changed the times of makes a mute that is in force from then on
\* and lasts the hour the form says, although the clock is read twice and cut to
\* the minute. Only one left open until its end has passed makes a dead mute.
StartsAtOnce ==
    [][\A m \in mutes' : Submitted(m) =>
          /\ m.endsAt >= m.startsAt + Hour
          /\ clock <= m.endsAt => Active(m, clock)]_<<vars, formVars>>

Prefilled(m) == m.matchers = parseMatchersText(matchersTextFromQuery(link))

CoversLink(m) ==
    \A labels \in LabelSets :
        (\A name \in DOMAIN link : Lookup(labels, name) = link[name])
            => MatchAll(m.matchers, labels)

\* A value with a space in it is not supported, and not refused either.
Plain(query) == \A name \in DOMAIN query : query[name] \notin Spaced

\* The form a link opens mutes the alert the link is about: with the matchers
\* left as they were, the mute covers every alert that has the link's labels,
\* where a parameter without a value means that the alert has no such label. A
\* value with a space in it may make a mute for other values, but never one that
\* asks for fewer labels, and mutes more, than the link does.
LinkHonoured ==
    [][\A m \in mutes' : Submitted(m) /\ Prefilled(m) =>
          /\ GivenIn(link) \subseteq DOMAIN m.matchers
          /\ Plain(link) => CoversLink(m)]_<<vars, formVars>>
=============================================================================
