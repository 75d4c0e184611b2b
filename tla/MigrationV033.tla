---------------------------- MODULE MigrationV033 ----------------------------
(***************************************************************************)
(* The v0.3.2.1 <-> v0.3.3 migration of the UI document's "marketplace"    *)
(* section (src/backend/src/version/v0_3_3.rs).  `up` and `down` each read *)
(* the document with get_mut, rewrite it and save it once, so each is one *)
(* atomic step here; the rewrites themselves are pure operators over an    *)
(* abstract JSON document.                                                 *)
(*                                                                         *)
(* A URL string is abstracted to a record [base, slash]: `base` is the     *)
(* text up to a possible final "/", `slash` whether the "/" is there.      *)
(* That is all ensure_trailing_slashes and the `format!("{url}/")` of      *)
(* MarketPlaceUrls::url look at or change.                                 *)
(*                                                                         *)
(* A document is a record:                                                 *)
(*   selId     marketplace.selected-id  (an id string, or Absent)          *)
(*   selUrl    marketplace.selected-url (a URL, or Absent)                 *)
(*   hosts     marketplace.known-hosts: key |-> [name, url], each field    *)
(*             a string or Absent ({} is [name |-> Absent, url |-> Absent])*)
(*   pkgOrder, autoCheck   whether ui.pkg-order / ui.auto-check-updates    *)
(*             are present                                                 *)
(***************************************************************************)
EXTENDS FiniteSets

CONSTANTS
    Ids,                \* host ids of a v0.3.2 document (uuid strings)
    Bases,              \* URL texts without their trailing "/"
    Names,              \* display names of hosts
    RegistryBase,       \* "https://registry.start9.com"
    DefaultMarketplace, \* crate::DEFAULT_MARKETPLACE (no trailing "/")
    Absent              \* a missing key or a JSON null

ASSUME RegistryBase \in Bases /\ DefaultMarketplace \in Bases

Url == [base : Bases, slash : BOOLEAN]

\* The key `down` gives a host: a fresh uuid, one per host URL.
NewId(u) == <<"uuid", u>>

Host == [name : Names \cup {Absent}, url : Url \cup {Absent}]

EmptyHost == [name |-> Absent, url |-> Absent]

VARIABLES
    stage,  \* "v0_3_2", "v0_3_3", "v0_3_2_again" or "v0_3_3_again": the
            \* version last run
    doc,    \* the UI document
    input   \* the document as it was before the first migration step

vars == <<stage, doc, input>>

-----------------------------------------------------------------------------
(* Pure operators.                                                         *)

\* ensure_trailing_slashes: append "/" unless the text already ends in one.
ensure_trailing_slashes(u) == [u EXCEPT !.slash = TRUE]

\* MarketPlaceUrls::Default.url(): DEFAULT_MARKETPLACE followed by "/".
DefaultUrl == [base |-> DefaultMarketplace, slash |-> TRUE]

\* The literal "https://registry.start9.com/" up inserts.
RegistryUrl == [base |-> RegistryBase, slash |-> TRUE]

\* The and_then chain of up: selected-id must be a string naming a
\* known-hosts entry, and that entry must itself be a JSON string.
LookupSelected(d) ==
    IF d.selId # Absent /\ d.selId \in DOMAIN d.hosts
                        /\ d.hosts[d.selId] \in Url
    THEN d.hosts[d.selId] ELSE Absent

UpSelectedUrlOf(d) ==
    IF LookupSelected(d) # Absent THEN LookupSelected(d) ELSE d.selUrl

\* known-hosts after up: one empty object per host that had a string
\* "url", under its slash-terminated URL, plus the registry.
UpHostKeys(d) ==
    {ensure_trailing_slashes(d.hosts[i].url) :
        i \in {j \in DOMAIN d.hosts : d.hosts[j].url # Absent}}
    \cup {RegistryUrl}

\* Mutant: known-hosts keyed by the URL as stored, without its "/".
UpNoSlash(d) ==
    LET sel == UpSelectedUrlOf(d)
    IN  [selId     |-> Absent,
         selUrl    |-> IF sel = Absent THEN DefaultUrl ELSE sel,
         hosts     |-> [u \in {d.hosts[i].url :
                               i \in {j \in DOMAIN d.hosts :
                                      d.hosts[j].url # Absent}}
                           \cup {RegistryUrl} |-> EmptyHost],
         pkgOrder  |-> FALSE,
         autoCheck |-> FALSE]

Up(d) ==
    LET sel == UpSelectedUrlOf(d)
    IN  [selId     |-> Absent,
         selUrl    |-> IF sel = Absent THEN DefaultUrl ELSE sel,
         hosts     |-> [u \in UpHostKeys(d) |-> EmptyHost],
         pkgOrder  |-> FALSE,
         autoCheck |-> FALSE]

\* down keeps the hosts that have a string "name", each under a fresh id,
\* and selects the host whose NAME equals the selected URL.
DownKept(d) == {u \in DOMAIN d.hosts : d.hosts[u].name # Absent}

\* Mutant: the new entry's "url" read from obj["url"], not the key.
DownUrlFromObject(d) ==
    LET chosen == {u \in DownKept(d) : d.hosts[u].name = d.selUrl}
    IN  [selId     |-> IF chosen = {} THEN Absent
                       ELSE NewId(CHOOSE u \in chosen : TRUE),
         selUrl    |-> Absent,
         hosts     |-> [i \in {NewId(u) : u \in DownKept(d)} |->
                            [name |-> d.hosts[i[2]].name,
                             url  |-> d.hosts[i[2]].url]],
         pkgOrder  |-> TRUE,
         autoCheck |-> TRUE]

Down(d) ==
    LET chosen == {u \in DownKept(d) : d.hosts[u].name = d.selUrl}
    IN  [selId     |-> IF chosen = {} THEN Absent
                       ELSE NewId(CHOOSE u \in chosen : TRUE),
         selUrl    |-> Absent,
         hosts     |-> [i \in {NewId(u) : u \in DownKept(d)} |->
                            [name |-> d.hosts[i[2]].name, url |-> i[2]]],
         pkgOrder  |-> TRUE,
         autoCheck |-> TRUE]

-----------------------------------------------------------------------------
(* Documents the program can hold.                                         *)

\* A v0.3.2 UI document: hosts are objects {name, url} under uuid ids,
\* there is no selected-url, selected-id may be missing or dangling.
OldDocs ==
    UNION {[selId : Ids \cup {Absent}, selUrl : {Absent},
            hosts : [D -> Host], pkgOrder : BOOLEAN, autoCheck : BOOLEAN]
           : D \in SUBSET Ids}

\* A v0.3.3 UI document: hosts keyed by slash-terminated URL, their
\* objects either empty (as up writes them) or carrying a name.
SlashUrls == {u \in Url : u.slash}

NewDocs ==
    UNION {[selId : {Absent}, selUrl : SlashUrls,
            hosts : [D -> {[name |-> n, url |-> Absent] :
                              n \in Names \cup {Absent}}],
            pkgOrder : {FALSE}, autoCheck : {FALSE}]
           : D \in SUBSET SlashUrls}

\* Only a v0.3.2 document lacks selected-url.
IsOld(d) == d.selUrl = Absent

-----------------------------------------------------------------------------
Init ==
    \/ stage = "v0_3_2" /\ doc \in OldDocs /\ input = doc
    \/ stage = "v0_3_3" /\ doc \in NewDocs /\ input = doc

\* Version::up, run on a v0.3.2 document: the one the server started
\* with, or one an earlier down wrote.
MigrateUp ==
    /\ stage \in {"v0_3_2", "v0_3_2_again"}
    /\ doc' = Up(doc)
    /\ stage' = IF stage = "v0_3_2" THEN "v0_3_3" ELSE "v0_3_3_again"
    /\ UNCHANGED input

\* Version::down, run on a v0.3.3 document.
MigrateDown ==
    /\ stage = "v0_3_3"
    /\ doc' = Down(doc)
    /\ stage' = "v0_3_2_again"
    /\ UNCHANGED input

Next == MigrateUp \/ MigrateDown

Spec == Init /\ [][Next]_vars

-----------------------------------------------------------------------------
(* Properties.                                                             *)

TypeOK ==
    /\ stage \in {"v0_3_2", "v0_3_3", "v0_3_2_again", "v0_3_3_again"}
    /\ doc.selUrl \in Url \cup {Absent}
    /\ \A k \in DOMAIN doc.hosts : doc.hosts[k] \in Host

\* After up, every host of the old document that had a URL is still a
\* known host, under its URL with exactly one trailing "/", and the
\* selected URL is one of the known hosts (the UI looks it up there).
UpKeepsHostsAndSelectsKnown ==
    (stage = "v0_3_3" /\ IsOld(input)) =>
        /\ \A i \in DOMAIN input.hosts :
              input.hosts[i].url # Absent =>
                  [input.hosts[i].url EXCEPT !.slash = TRUE] \in DOMAIN doc.hosts
        /\ \A u \in DOMAIN doc.hosts : u.slash
        /\ doc.selUrl \in DOMAIN doc.hosts

\* up carries the user's selection over: when selected-id names a host
\* that has a URL, selected-url becomes that URL (with its "/"), not the
\* default marketplace.
UpCarriesSelection ==
    (stage = "v0_3_3" /\ IsOld(input)
        /\ input.selId \in DOMAIN input.hosts
        /\ input.hosts[input.selId].url # Absent) =>
        doc.selUrl = ensure_trailing_slashes(input.hosts[input.selId].url)

\* A downgrade followed by an upgrade gives back every known host the user
\* had named: each is a known host again under its own URL.  down must
\* carry the host's URL (its known-hosts key) into the v0.3.2 object, as
\* up reads only that object's "url".
DownUpKeepsNamedHosts ==
    (stage = "v0_3_3_again" /\ ~IsOld(input)) =>
        DownKept(input) \subseteq DOMAIN doc.hosts

\* down carries the selection back: when the selected URL is a named
\* known host, selected-id names the host that has that URL.
DownKeepsSelection ==
    (stage = "v0_3_2_again" /\ ~IsOld(input)
        /\ input.selUrl \in DownKept(input)) =>
        /\ doc.selId # Absent
        /\ doc.selId \in DOMAIN doc.hosts
        /\ doc.hosts[doc.selId].url = input.selUrl
=============================================================================
