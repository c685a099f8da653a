-------------------------------- MODULE Geocode -------------------------------
(***************************************************************************)
(* Looking up an address.  A call comes from the geocoding endpoint, which *)
(* the admin's building page asks, or from the join form, which has a      *)
(* captcha checked first.  It asks the city's search, the address parser,  *)
(* perhaps the city's list of new buildings, and the building footprints;  *)
(* any of them may fail, and most are asked again when they do.  Answers   *)
(* reach the page in any order, and after the page has changed.            *)
(*                                                                         *)
(* What the city knows does not change.  Texts (street names, spellings)   *)
(* are left out; JoinForm has what the form makes of them.                 *)
(***************************************************************************)
EXTENDS Naturals, FiniteSets

CONSTANTS
  Address,     \* addresses that may be asked for
  City,        \* what the city's data say of each of them
  Bin,         \* building numbers
  Placeholder, \* the numbers in INVALID_BIN_NUMBERS
  Spelled,     \* those that the city's search writes as texts
  Lookup,      \* calls of the geocoding endpoint by the page
  Join,        \* calls by the join form
  Scenarios,   \* sets of calls that are made together
  Tokens,      \* captcha tokens that the join page may send
  Threshold,   \* RECAPTCHA_INVISIBLE_TOKEN_SCORE_THRESHOLD
  Retries,     \* how often a session asks again
  Null

Call == Lookup \cup Join

(* area: is the state New York and the ZIP one of the city's; match: what  *)
(* the search finds, nothing, an address in another ZIP, or this one; pad: *)
(* the building number it has for it, if any; dob: the numbers in the rows *)
(* that the list of new buildings has for it, Null for a row without one.  *)
Entry == [area : BOOLEAN, match : {"none", "other ZIP", "found"},
          pad : Bin \cup Placeholder \cup {Null}, dob : SUBSET (Bin \cup {Null})]

Token == [checkbox : {"none", "valid", "invalid"}, invisible : {"none", "valid", "invalid"}, score : 0 .. 10]

ASSUME GeocodeAssumption ==
  /\ City \in [Address -> Entry] /\ Tokens \subseteq Token
  /\ IsFiniteSet(Bin) /\ Bin \cap Placeholder = {} /\ Spelled \subseteq Placeholder
  /\ Null \notin Bin \cup Placeholder /\ Null \notin Address /\ Null \notin Nat
  /\ Lookup \cap Join = {} /\ Scenarios \subseteq SUBSET Call
  /\ Threshold \in 0 .. 10 /\ Retries \in Nat

VARIABLES
  calls,    \* of each call: address, token, stage, tries, bin, code
  page,     \* the building page: search (searchId), field (the number), error
  asked,    \* history: the address that the page's last click searched
  crossed   \* history: that click came before an earlier one was answered

vars == <<calls, page, asked, crossed>>

NoCall == [address |-> Null, token |-> Null, stage |-> "unused", tries |-> 0,
           bin |-> Null, code |-> Null, broken |-> {}]

Done == [NoCall EXCEPT !.stage = "delivered"]

Init ==
  /\ \E made \in Scenarios : calls = [c \in Call |-> IF c \in made THEN NoCall ELSE Done]
  /\ page = [search |-> Null, field |-> Null, error |-> FALSE]
  /\ asked = Null /\ crossed = FALSE

-----------------------------------------------------------------------------
(***************************************************************************)
(* The requests of a call.                                                 *)
(***************************************************************************)
At(c, stage) == calls[c].stage = stage

Of(c) == City[calls[c].address]

Continue(c, stage) == calls' = [calls EXCEPT ![c].stage = stage, ![c].tries = 0]

Answer(c, code) == calls' = [calls EXCEPT ![c].stage = "answered", ![c].code = code]

(* Variant: the whole look-up is begun anew. *)
BeginAnew(c, service, code) == Continue(c, "search")

(* An answer that cannot be used, or the retries are spent.  broken is a   *)
(* history of the services given up on.                                    *)
Fail(c, service, code) ==
  calls' = [calls EXCEPT ![c].stage = "answered", ![c].code = code, ![c].broken = @ \cup {service}]

(* Unsupported and invalid addresses, and the other exceptions.            *)
NotFound(c) == IF c \in Join THEN 400 ELSE 404

(* A 5xx answer or no answer: the session waits and asks once more.        *)
Retry(c) ==
  /\ calls[c].stage \in {"search", "parse", "dob", "height"} /\ calls[c].tries < Retries
  /\ calls' = [calls EXCEPT ![c].tries = @ + 1]
  /\ UNCHANGED <<page, asked, crossed>>

Start(c, a, token) ==
  /\ At(c, "unused")
  /\ calls' = [calls EXCEPT ![c].address = a, ![c].token = token,
                            ![c].stage = IF c \in Join THEN "captcha" ELSE "area"]

(* Variant: the score makes up for a checkbox that is refused. *)
EitherToken(t, failAll) ==
  t.checkbox = "valid" \/ (t.invisible = "valid" /\ t.score >= Threshold /\ ~failAll)

(* validate_recaptcha_tokens: whoever sends a checkbox token is judged by  *)
(* it alone, the others by the score of the invisible one, unless the flag *)
(* JOIN_FORM_FAIL_ALL_INVISIBLE_RECAPTCHAS is set.                         *)
Human(t, failAll) ==
  \/ t.checkbox = "valid"
  \/ t.checkbox = "none" /\ t.invisible = "valid" /\ t.score >= Threshold /\ ~failAll

(* The flag may have been set at any time. *)
Captcha(c) ==
  /\ At(c, "captcha")
  /\ \/ \E failAll \in BOOLEAN :
          IF Human(calls[c].token, failAll) THEN Continue(c, "area") ELSE Answer(c, 401)
     \/ Fail(c, "captcha", 401)
  /\ UNCHANGED <<page, asked, crossed>>

(* NYCZipCodes.match_zip and the state, before anything is asked.          *)
Area(c) ==
  /\ At(c, "area")
  /\ IF Of(c).area THEN Continue(c, "search") ELSE Answer(c, NotFound(c))
  /\ UNCHANGED <<page, asked, crossed>>

Matched(c) == Of(c).match = "found"

Search(c) ==
  /\ At(c, "search")
  /\ \/ IF Matched(c) THEN Continue(c, "parse") ELSE Answer(c, NotFound(c))
     \/ Fail(c, "search", 500)
  /\ UNCHANGED <<page, asked, crossed>>

(* INVALID_BIN_NUMBERS are integers: a placeholder that comes as a text is *)
(* taken for the number of a building.                                     *)
Numbered(c) == Of(c).pad \notin (Placeholder \ Spelled) \cup {Null}

(* humanify_street_address; then, the number of the building if the search *)
(* has it.                                                                 *)
Parse(c) ==
  /\ At(c, "parse")
  /\ \/ /\ Numbered(c)
        /\ calls' = [calls EXCEPT ![c].bin = Of(c).pad, ![c].stage = "height", ![c].tries = 0]
     \/ ~Numbered(c) /\ Continue(c, "dob")
     \/ Fail(c, "parse", 500)
  /\ UNCHANGED <<page, asked, crossed>>

(* Variant: the first row that comes. *)
FirstRow(c) == Of(c).dob \ {Null}

(* All rows must agree on the number.                                      *)
OneBin(c) == IF Cardinality(Of(c).dob) = 1 THEN Of(c).dob \ {Null} ELSE {}

(* lookup_address_nyc_open_data_new_buildings: no rows are an invalid      *)
(* address, and so is a request that fails; rows that disagree, or have no *)
(* number, are an error, and so is an answer that is not JSON.             *)
NewBuildings(c) ==
  /\ At(c, "dob")
  /\ \/ \E b \in OneBin(c) :
          calls' = [calls EXCEPT ![c].bin = b, ![c].stage = "height", ![c].tries = 0]
     \/ Of(c).dob = {} /\ Answer(c, NotFound(c))
     \/ Of(c).dob # {} /\ OneBin(c) = {} /\ Answer(c, 500)
     \/ \E code \in {NotFound(c), 500} : Fail(c, "dob", code)
  /\ UNCHANGED <<page, asked, crossed>>

(* get_height_from_building_footprints_api never fails: at worst, the      *)
(* altitude is not known.                                                  *)
Height(c) ==
  /\ At(c, "height")
  /\ Answer(c, 200)
  /\ UNCHANGED <<page, asked, crossed>>

(***************************************************************************)
(* The building page, auto_populate_location.js.                           *)
(***************************************************************************)
(* A change of an address field: a search for it, or none while a field is *)
(* empty.  What an answer filled in stays.                                 *)
BuildAddressQuery(a) ==
  /\ page.search # a
  /\ page' = [page EXCEPT !.search = a]
  /\ UNCHANGED <<calls, asked, crossed>>

Pending == {c \in Lookup : calls[c].stage \notin {"unused", "delivered"}}

Click(c) ==
  /\ c \in Lookup /\ page.search # Null
  /\ Start(c, page.search, Null)
  /\ page' = [page EXCEPT !.field = Null, !.error = FALSE]
  /\ asked' = page.search
  /\ crossed' = (Pending # {})

(* Variant: an error is filled in as an answer. *)
Filled(c) == [page EXCEPT !.field = calls[c].bin]

Shown(c) ==
  IF calls[c].code = 200 THEN [page EXCEPT !.field = calls[c].bin]
  ELSE [page EXCEPT !.error = TRUE]

(* done and fail *)
Deliver(c) ==
  /\ c \in Lookup /\ At(c, "answered")
  /\ calls' = [calls EXCEPT ![c] = Done]
  /\ page' = Shown(c)
  /\ UNCHANGED <<asked, crossed>>

(***************************************************************************)
(* The join form, which goes on from the answer as JoinForm says.          *)
(***************************************************************************)
Post(c, a, token) ==
  /\ c \in Join /\ Start(c, a, token)
  /\ UNCHANGED <<page, asked, crossed>>

Progress(c) == Captcha(c) \/ Area(c) \/ Search(c) \/ Parse(c) \/ NewBuildings(c) \/ Height(c) \/ Deliver(c)

Next ==
  \/ \E c \in Call : Retry(c) \/ Progress(c)
  \/ \E a \in Address \cup {Null} : BuildAddressQuery(a)
  \/ \E c \in Lookup : Click(c)
  \/ \E c \in Join, a \in Address, t \in Tokens : Post(c, a, t)

(* A session's requests have a timeout, so that a call goes on.  The list  *)
(* of new buildings and the captcha are asked without one.                 *)
Timed(c) == calls[c].stage \notin {"dob", "captcha"}

Fairness == \A c \in Call : WF_vars((Retry(c) \/ Progress(c)) /\ Timed(c))

Spec == Init /\ [][Next]_vars /\ Fairness

-----------------------------------------------------------------------------
Stage == {"unused", "captcha", "area", "search", "parse", "dob", "height", "answered", "delivered"}

Code == {Null, 200, 400, 401, 404, 500}

Service == {"captcha", "search", "parse", "dob"}

Maybe(S) == S \cup {Null}

Number == Bin \cup Spelled

CallRecord ==
  [address : Maybe(Address), token : Maybe(Tokens), stage : Stage, tries : 0 .. Retries,
   bin : Maybe(Number), code : Code, broken : SUBSET Service]

TypeOK ==
  /\ calls \in [Call -> CallRecord]
  /\ page \in [search : Maybe(Address), field : Maybe(Number), error : BOOLEAN]
  /\ asked \in Maybe(Address) /\ crossed \in BOOLEAN

(* The building numbers that the city has for an address: the search's, or *)
(* else those of the new buildings.                                        *)
Numbers(a) == IF City[a].pad \in Bin THEN {City[a].pad} ELSE City[a].dob

Known(a) == City[a].area /\ City[a].match = "found"

Misread(a) == City[a].pad \in Spelled

Right(a, b) == Known(a) /\ IF Misread(a) THEN b = City[a].pad ELSE Numbers(a) = {b}

(* Whatever fails and is asked again, an address that is found, in the ZIP *)
(* that was asked for, has the one number the city has for it, or else the *)
(* placeholder that came as a text, and one that is not found is unknown,  *)
(* or is without a number while the new buildings cannot be asked, which   *)
(* is answered as if there were no such address, and not as the city's     *)
(* other outages are (validation.py l.117-176, l.223-255, geography.py     *)
(* l.443-456).                                                             *)
AnswersTrue ==
  \A c \in Call :
    /\ calls[c].code = 200 => Right(calls[c].address, calls[c].bin)
    /\ calls[c].code = NotFound(c) =>
         \/ ~Known(calls[c].address)
         \/ ~Misread(calls[c].address) /\ Numbers(calls[c].address) = {}
         \/ Of(c).pad \in (Placeholder \ Spelled) \cup {Null} /\ calls[c].broken = {"dob"}

(* An address for which the search returns a placeholder is answered with  *)
(* the number of a building or not at all, since the list of new buildings *)
(* is then asked (validation.py l.153-176).  A placeholder that comes as a *)
(* text, as in sample_geocode_response.py l.60, is answered as it is.      *)
PlaceholdersFallBack == \A c \in Call : calls[c].code = 200 => calls[c].bin \in Bin

(* Nothing is looked up for a join request whose sender has neither solved *)
(* the checkbox nor scored enough: a refused checkbox is not made up for   *)
(* by the score, and an unreachable captcha service refuses                *)
(* (validation.py l.304-336, forms.py l.125-143).                          *)
OnlyHumans ==
  \A c \in Join : calls[c].token # Null /\ ~At(c, "captcha") /\ calls[c].code # 401 =>
    LET t == calls[c].token
    IN  \/ t.checkbox = "valid"
        \/ t.checkbox = "none" /\ t.invisible = "valid" /\ t.score >= Threshold

(* Once the answer of a click is there, and no other click came before it, *)
(* the page shows the number of the address that was searched, or an error *)
(* and no number (auto_populate_location.js l.69-91).  An answer that is   *)
(* overtaken may be shown for another address.                             *)
PageTold ==
  asked # Null /\ ~crossed /\ Pending = {} =>
    IF page.error THEN page.field = Null
    ELSE Right(asked, page.field)

(* Every call is answered, and its answer shown, unless it is stuck at one *)
(* of the two services that are asked without a timeout (requests.py       *)
(* l.5-17, validation.py l.235, l.284).                                    *)
Settles ==
  \A c \in Call : ~At(c, "unused") ~>
    (calls[c].stage \in {"dob", "captcha", "delivered"} \/ (c \in Join /\ At(c, "answered")))
=============================================================================
