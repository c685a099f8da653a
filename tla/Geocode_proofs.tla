---------------------------- MODULE Geocode_proofs ----------------------------
(***************************************************************************)
(* Theorems about Geocode, for any addresses, whatever the city knows of   *)
(* them, and any number of calls and retries.                              *)
(***************************************************************************)
EXTENDS Geocode, FiniteSetTheorems, TLAPS

(* The search has no number for the address, and is understood so.         *)
Unnumbered(a) == City[a].pad \in (Placeholder \ Spelled) \cup {Null}

(* What is known of a call at each stage: the address is the city's from   *)
(* "parse" on, the search has no number for it at "dob", and the number in *)
(* hand at "height" is the only one.  Nothing is answered before.          *)
CallOK(c, k) ==
  /\ k.stage \notin {"unused", "delivered"} => k.address \in Address
  /\ k.stage \in {"unused", "delivered"} => k.token = Null
  /\ c \in Join /\ k.stage \notin {"unused", "captcha", "delivered"} /\ k.code # 401 =>
       \E failAll \in BOOLEAN : Human(k.token, failAll)
  /\ k.stage = "captcha" => c \in Join
  /\ k.stage # "answered" => k.code = Null /\ k.broken = {}
  /\ k.stage = "answered" => k.code # Null
  /\ k.stage = "search" => City[k.address].area
  /\ k.stage \in {"parse", "dob", "height"} => Known(k.address)
  /\ k.stage = "dob" => Unnumbered(k.address)
  /\ k.stage = "height" => Right(k.address, k.bin)

TrueAnswer(c, k) ==
  /\ k.code = 200 => Right(k.address, k.bin)
  /\ k.code = NotFound(c) =>
       \/ ~Known(k.address)
       \/ ~Misread(k.address) /\ Numbers(k.address) = {}
       \/ Unnumbered(k.address) /\ k.broken = {"dob"}

CallsOK == \A c \in Call : CallOK(c, calls[c]) /\ TrueAnswer(c, calls[c])

Told == IF page.error THEN page.field = Null ELSE Right(asked, page.field)

(* After a click that crossed no other, its call is the only one pending,  *)
(* or the page has been told.                                              *)
PageOK ==
  /\ asked = Null => Pending = {}
  /\ asked # Null /\ ~crossed =>
       \/ \E c \in Lookup : /\ Pending = {c} /\ calls[c].address = asked
                            /\ page.field = Null /\ ~page.error
       \/ Pending = {} /\ Told

Inv == TypeOK /\ CallsOK /\ PageOK

-----------------------------------------------------------------------------
LEMMA InitInv == Init => Inv
<1> SUFFICES ASSUME Init PROVE Inv
  OBVIOUS
<1>0. \A c \in Call : calls[c] \in {NoCall, Done}
  BY DEF Init
<1>1. NoCall \in CallRecord /\ Done \in CallRecord
  BY GeocodeAssumption DEF NoCall, Done, CallRecord, Stage, Service, Code, Maybe
<1>2. TypeOK
  BY <1>1 DEF Init, TypeOK, Maybe
<1>3. CallsOK
  BY <1>0, GeocodeAssumption DEF CallsOK, CallOK, TrueAnswer, NoCall, Done, NotFound
<1>4. PageOK
  BY <1>0 DEF Init, PageOK, Pending, NoCall, Done, Call
<1> QED BY <1>2, <1>3, <1>4 DEF Inv

(* A call goes on, and stays pending.                                      *)
LEMMA ProgressInv ==
  ASSUME Inv, NEW c \in Call, UNCHANGED <<page, asked, crossed>>,
         calls' \in [Call -> CallRecord], \A d \in Call \ {c} : calls'[d] = calls[d],
         calls[c].stage \notin {"unused", "delivered"}, calls'[c].stage \notin {"unused", "delivered"},
         calls'[c].address = calls[c].address,
         CallOK(c, calls'[c]), TrueAnswer(c, calls'[c])
  PROVE  Inv'
<1>1. TypeOK'
  BY DEF Inv, TypeOK
<1>2. CallsOK'
  BY DEF Inv, CallsOK, CallOK, TrueAnswer
<1>3. Pending' = Pending
  BY DEF Pending, Call
<1>4. PageOK'
  BY <1>3 DEF Inv, PageOK, Told, Pending, Call
<1> QED BY <1>1, <1>2, <1>4 DEF Inv

(* The only number in the rows of the list of new buildings.               *)
LEMMA OneBinAlone ==
  ASSUME NEW c \in Call, calls[c].address \in Address, NEW b \in OneBin(c)
  PROVE  b \in Bin /\ City[calls[c].address].dob = {b}
<1>0. IsFiniteSet(Bin \cup {Null})
  BY GeocodeAssumption, FS_AddElement
<1>1. Of(c).dob \in SUBSET (Bin \cup {Null})
  BY GeocodeAssumption DEF Of, Entry
<1>2. IsFiniteSet(Of(c).dob) /\ Cardinality(Of(c).dob) = 1
  BY <1>0, <1>1, FS_Subset DEF OneBin
<1>3. PICK x : Of(c).dob = {x}
  BY <1>2, FS_Singleton
<1> QED BY <1>1, <1>2, <1>3 DEF OneBin, Of
LEMMA RetryInv == ASSUME Inv, NEW c \in Call, Retry(c) PROVE Inv'
<1>1. /\ calls[c] \in CallRecord /\ CallOK(c, calls[c]) /\ TrueAnswer(c, calls[c])
  BY DEF Inv, TypeOK, CallsOK
<1>2. /\ calls' \in [Call -> CallRecord]
      /\ calls'[c] = [calls[c] EXCEPT !.tries = @ + 1]
      /\ \A d \in Call \ {c} : calls'[d] = calls[d]
  BY <1>1, GeocodeAssumption DEF Inv, TypeOK, CallRecord, Retry
<1>3. CallOK(c, calls'[c]) /\ TrueAnswer(c, calls'[c])
  BY <1>1, <1>2 DEF CallRecord, CallOK, TrueAnswer
<1> QED BY <1>1, <1>2, <1>3, ProgressInv DEF Retry, CallRecord

LEMMA AtStage ==
  ASSUME Inv, NEW c \in Call, calls[c].stage \notin {"unused", "answered", "delivered"}
  PROVE  /\ calls[c] \in CallRecord /\ CallOK(c, calls[c])
         /\ calls[c].address \in Address /\ Of(c) \in Entry /\ Of(c) = City[calls[c].address]
         /\ calls[c].code = Null /\ calls[c].broken = {}
         /\ Null \notin {200, 400, 401, 404, 500}
<1>1. calls[c] \in CallRecord /\ CallOK(c, calls[c])
  BY DEF Inv, TypeOK, CallsOK
<1>2. calls[c].address \in Address /\ calls[c].code = Null /\ calls[c].broken = {}
  BY <1>1 DEF CallOK
<1>3. Of(c) \in Entry /\ Of(c) = City[calls[c].address]
  BY <1>2, GeocodeAssumption DEF Of
<1>4. Null \notin {200, 400, 401, 404, 500}
  BY GeocodeAssumption
<1> QED BY <1>1, <1>2, <1>3, <1>4

(* What a step makes of a call.                                            *)
Writes(c, s, b, x, v) ==
  /\ calls' \in [Call -> CallRecord] /\ \A d \in Call \ {c} : calls'[d] = calls[d]
  /\ calls'[c].address = calls[c].address /\ calls'[c].token = calls[c].token
  /\ calls'[c].stage = s /\ calls'[c].bin = b /\ calls'[c].code = x /\ calls'[c].broken = v

Working(c) == calls[c].stage \notin {"unused", "answered", "delivered"}

LEMMA ContinueWrites ==
  ASSUME Inv, NEW c \in Call, Working(c), NEW s \in Stage, Continue(c, s)
  PROVE  Writes(c, s, calls[c].bin, Null, {})
<1>1. calls \in [Call -> CallRecord] /\ calls[c].code = Null /\ calls[c].broken = {}
  BY AtStage DEF Inv, TypeOK, Working
<1>2. 0 \in 0 .. Retries
  BY GeocodeAssumption
<1> QED BY <1>1, <1>2 DEF Continue, CallRecord, Writes

LEMMA AnswerWrites ==
  ASSUME Inv, NEW c \in Call, Working(c), NEW x \in Code, Answer(c, x)
  PROVE  Writes(c, "answered", calls[c].bin, x, {})
<1>1. calls \in [Call -> CallRecord] /\ calls[c].broken = {} /\ "answered" \in Stage
  BY AtStage DEF Inv, TypeOK, Stage, Working
<1> QED BY <1>1 DEF Answer, CallRecord, Writes

LEMMA FailWrites ==
  ASSUME Inv, NEW c \in Call, Working(c), NEW v \in Service, NEW x \in Code, Fail(c, v, x)
  PROVE  Writes(c, "answered", calls[c].bin, x, {v})
<1>1. calls \in [Call -> CallRecord] /\ calls[c].broken = {} /\ "answered" \in Stage
  BY AtStage DEF Inv, TypeOK, Stage, Working
<1>2. calls[c].broken \cup {v} = {v}
  BY <1>1
<1>3. calls'[c].broken = {v}
  BY <1>1, <1>2 DEF Fail, CallRecord
<1>4. calls' \in [Call -> CallRecord]
  <2>1. calls'[c] \in CallRecord
    BY <1>1, <1>2 DEF Fail, CallRecord
  <2> QED BY <1>1, <2>1 DEF Fail
<1>5. /\ calls'[c].address = calls[c].address /\ calls'[c].token = calls[c].token
      /\ calls'[c].stage = "answered" /\ calls'[c].bin = calls[c].bin /\ calls'[c].code = x
      /\ \A d \in Call \ {c} : calls'[d] = calls[d]
  BY <1>1 DEF Fail, CallRecord
<1> QED BY <1>3, <1>4, <1>5 DEF Writes

LEMMA NumberWrites ==
  ASSUME Inv, NEW c \in Call, Working(c), NEW b \in Number,
         calls' = [calls EXCEPT ![c].bin = b, ![c].stage = "height", ![c].tries = 0]
  PROVE  Writes(c, "height", b, Null, {})
<1>1. calls \in [Call -> CallRecord] /\ calls[c].code = Null /\ calls[c].broken = {}
  BY AtStage DEF Inv, TypeOK, Working
<1>2. 0 \in 0 .. Retries /\ b \in Maybe(Number) /\ "height" \in Stage
  BY GeocodeAssumption DEF Maybe, Stage
<1> QED BY <1>1, <1>2 DEF CallRecord, Writes

MayBecome(c, s, b, x, v) ==
  \A k \in CallRecord :
    /\ k.address = calls[c].address /\ k.token = calls[c].token
    /\ k.stage = s /\ k.bin = b /\ k.code = x /\ k.broken = v
    => CallOK(c, k) /\ TrueAnswer(c, k)

LEMMA StepInv ==
  ASSUME Inv, NEW c \in Call, UNCHANGED <<page, asked, crossed>>,
         Working(c), NEW s, s \notin {"unused", "delivered"}, NEW b, NEW x, NEW v, Writes(c, s, b, x, v),
         MayBecome(c, s, b, x, v)
  PROVE  Inv'
<1>1. CallOK(c, calls'[c]) /\ TrueAnswer(c, calls'[c])
  BY DEF Writes, MayBecome
<1> QED BY <1>1, ProgressInv DEF Writes, Working

LEMMA Names ==
  /\ Stage = {"unused", "captcha", "area", "search", "parse", "dob", "height", "answered", "delivered"}
  /\ Service = {"captcha", "search", "parse", "dob"}
  /\ {200, 400, 401, 404, 500} \subseteq Code /\ Null \notin {200, 400, 401, 404, 500}
  /\ \A c \in Call : NotFound(c) \in {400, 404} /\ NotFound(c) \in Code
BY GeocodeAssumption DEF Stage, Service, Code, NotFound

LEMMA ContinueInv ==
  ASSUME Inv, NEW c \in Call, Working(c), UNCHANGED <<page, asked, crossed>>,
         NEW s \in Stage, s \notin {"unused", "delivered"}, Continue(c, s),
         MayBecome(c, s, calls[c].bin, Null, {})
  PROVE  Inv'
<1> QED BY ContinueWrites, StepInv

LEMMA AnswerInv ==
  ASSUME Inv, NEW c \in Call, Working(c), UNCHANGED <<page, asked, crossed>>,
         NEW x \in Code, Answer(c, x), MayBecome(c, "answered", calls[c].bin, x, {})
  PROVE  Inv'
<1> QED BY AnswerWrites, StepInv

LEMMA FailInv ==
  ASSUME Inv, NEW c \in Call, Working(c), UNCHANGED <<page, asked, crossed>>,
         NEW v \in Service, NEW x \in Code, Fail(c, v, x),
         MayBecome(c, "answered", calls[c].bin, x, {v})
  PROVE  Inv'
<1> QED BY FailWrites, StepInv

LEMMA NumberInv ==
  ASSUME Inv, NEW c \in Call, Working(c), UNCHANGED <<page, asked, crossed>>, NEW b \in Number,
         calls' = [calls EXCEPT ![c].bin = b, ![c].stage = "height", ![c].tries = 0],
         MayBecome(c, "height", b, Null, {})
  PROVE  Inv'
<1> QED BY NumberWrites, StepInv

-----------------------------------------------------------------------------
LEMMA CaptchaInv == ASSUME Inv, NEW c \in Call, Captcha(c) PROVE Inv'
<1>1. Working(c) /\ calls[c].stage = "captcha" /\ UNCHANGED <<page, asked, crossed>>
  BY DEF Captcha, At, Working
<1>2. CallOK(c, calls[c]) /\ calls[c].address \in Address
  BY <1>1, AtStage DEF Working
<1>3. CASE /\ \E failAll \in BOOLEAN : Human(calls[c].token, failAll)
           /\ Continue(c, "area")
  <2>1. MayBecome(c, "area", calls[c].bin, Null, {})
    BY <1>2, <1>3, Names DEF MayBecome, CallOK, TrueAnswer
  <2> QED BY <1>1, <1>3, <2>1, ContinueInv, Names
<1>4. CASE Answer(c, 401)
  <2>1. MayBecome(c, "answered", calls[c].bin, 401, {})
    BY <1>2, Names DEF MayBecome, CallOK, TrueAnswer
  <2> QED BY <1>1, <1>4, <2>1, AnswerInv, Names
<1>5. CASE Fail(c, "captcha", 401)
  <2>1. MayBecome(c, "answered", calls[c].bin, 401, {"captcha"})
    BY <1>2, Names DEF MayBecome, CallOK, TrueAnswer
  <2> QED BY <1>1, <1>5, <2>1, FailInv, Names
<1> QED BY <1>3, <1>4, <1>5 DEF Captcha

LEMMA AreaInv == ASSUME Inv, NEW c \in Call, Area(c) PROVE Inv'
<1>1. Working(c) /\ calls[c].stage = "area" /\ UNCHANGED <<page, asked, crossed>>
  BY DEF Area, At, Working
<1>2. CallOK(c, calls[c]) /\ calls[c].address \in Address /\ Of(c) = City[calls[c].address] /\ calls[c].code = Null
  BY <1>1, AtStage DEF Working
<1>3. CASE Of(c).area /\ Continue(c, "search")
  <2>1. MayBecome(c, "search", calls[c].bin, Null, {})
    BY <1>1, <1>2, <1>3, Names DEF MayBecome, CallOK, TrueAnswer
  <2> QED BY <1>1, <1>3, <2>1, ContinueInv, Names
<1>4. CASE ~Of(c).area /\ Answer(c, NotFound(c))
  <2>1. MayBecome(c, "answered", calls[c].bin, NotFound(c), {})
    BY <1>1, <1>2, <1>4, Names DEF MayBecome, CallOK, TrueAnswer, Known
  <2> QED BY <1>1, <1>4, <2>1, AnswerInv, Names
<1> QED BY <1>3, <1>4 DEF Area

LEMMA SearchInv == ASSUME Inv, NEW c \in Call, Search(c) PROVE Inv'
<1>1. Working(c) /\ calls[c].stage = "search" /\ UNCHANGED <<page, asked, crossed>>
  BY DEF Search, At, Working
<1>2. CallOK(c, calls[c]) /\ calls[c].address \in Address /\ Of(c) = City[calls[c].address] /\ calls[c].code = Null
  BY <1>1, AtStage DEF Working
<1>3. CASE Matched(c) /\ Continue(c, "parse")
  <2>1. MayBecome(c, "parse", calls[c].bin, Null, {})
    BY <1>1, <1>2, <1>3, Names DEF MayBecome, CallOK, TrueAnswer, Matched, Known
  <2> QED BY <1>1, <1>3, <2>1, ContinueInv, Names
<1>4. CASE ~Matched(c) /\ Answer(c, NotFound(c))
  <2>1. MayBecome(c, "answered", calls[c].bin, NotFound(c), {})
    BY <1>1, <1>2, <1>4, Names DEF MayBecome, CallOK, TrueAnswer, Matched, Known
  <2> QED BY <1>1, <1>4, <2>1, AnswerInv, Names
<1>5. CASE Fail(c, "search", 500)
  <2>1. MayBecome(c, "answered", calls[c].bin, 500, {"search"})
    BY <1>1, <1>2, Names DEF MayBecome, CallOK, TrueAnswer
  <2> QED BY <1>1, <1>5, <2>1, FailInv, Names
<1> QED BY <1>3, <1>4, <1>5 DEF Search

LEMMA ParseInv == ASSUME Inv, NEW c \in Call, Parse(c) PROVE Inv'
<1>1. Working(c) /\ calls[c].stage = "parse" /\ UNCHANGED <<page, asked, crossed>>
  BY DEF Parse, At, Working
<1>2. /\ CallOK(c, calls[c]) /\ calls[c].address \in Address /\ calls[c].code = Null
      /\ Of(c) \in Entry /\ Of(c) = City[calls[c].address]
  BY <1>1, AtStage DEF Working
<1>3. CASE Numbered(c) /\ calls' = [calls EXCEPT ![c].bin = Of(c).pad, ![c].stage = "height", ![c].tries = 0]
  <2>0. Of(c).pad \in Number
    BY <1>2, <1>3, GeocodeAssumption DEF Numbered, Entry, Number
  <2>1. Right(calls[c].address, Of(c).pad)
    <3>1. Known(calls[c].address)
      BY <1>1, <1>2 DEF CallOK
    <3>2. CASE Of(c).pad \in Spelled
      BY <1>2, <3>1, <3>2 DEF Right, Misread
    <3>3. CASE Of(c).pad \notin Spelled
      <4>1. Of(c).pad \in Bin
        BY <2>0, <3>3 DEF Number
      <4> QED BY <1>2, <3>1, <3>3, <4>1 DEF Right, Misread, Numbers
    <3> QED BY <3>2, <3>3
  <2>2. MayBecome(c, "height", Of(c).pad, Null, {})
    BY <1>1, <1>2, <2>1, Names DEF MayBecome, CallOK, TrueAnswer
  <2> QED BY <1>1, <1>3, <2>0, <2>2, NumberInv
<1>4. CASE ~Numbered(c) /\ Continue(c, "dob")
  <2>1. Unnumbered(calls[c].address)
    BY <1>2, <1>4 DEF Numbered, Unnumbered
  <2>2. MayBecome(c, "dob", calls[c].bin, Null, {})
    BY <1>1, <1>2, <2>1, Names DEF MayBecome, CallOK, TrueAnswer
  <2> QED BY <1>1, <1>4, <2>2, ContinueInv, Names
<1>5. CASE Fail(c, "parse", 500)
  <2>1. MayBecome(c, "answered", calls[c].bin, 500, {"parse"})
    BY <1>1, <1>2, Names DEF MayBecome, CallOK, TrueAnswer
  <2> QED BY <1>1, <1>5, <2>1, FailInv, Names
<1> QED BY <1>3, <1>4, <1>5 DEF Parse

LEMMA NewBuildingsInv == ASSUME Inv, NEW c \in Call, NewBuildings(c) PROVE Inv'
<1>1. Working(c) /\ calls[c].stage = "dob" /\ UNCHANGED <<page, asked, crossed>>
  BY DEF NewBuildings, At, Working
<1>2. /\ CallOK(c, calls[c]) /\ calls[c].address \in Address /\ calls[c].code = Null
      /\ Of(c) = City[calls[c].address] /\ Unnumbered(calls[c].address)
  BY <1>1, AtStage DEF Working, CallOK
<1>0. City[calls[c].address].pad \notin Bin /\ ~Misread(calls[c].address)
  BY <1>2, GeocodeAssumption DEF Unnumbered, Misread
<1>3. CASE \E b \in OneBin(c) : calls' = [calls EXCEPT ![c].bin = b, ![c].stage = "height", ![c].tries = 0]
  <2>1. PICK b \in OneBin(c) : calls' = [calls EXCEPT ![c].bin = b, ![c].stage = "height", ![c].tries = 0]
    BY <1>3
  <2>2. b \in Number /\ Right(calls[c].address, b)
    BY <1>0, <1>1, <1>2, OneBinAlone DEF Numbers, Number, Right, CallOK
  <2>3. MayBecome(c, "height", b, Null, {})
    BY <1>1, <1>2, <2>2, Names DEF MayBecome, CallOK, TrueAnswer
  <2> QED BY <1>1, <2>1, <2>2, <2>3, NumberInv
<1>4. CASE Of(c).dob = {} /\ Answer(c, NotFound(c))
  <2>1. MayBecome(c, "answered", calls[c].bin, NotFound(c), {})
    BY <1>0, <1>1, <1>2, <1>4, Names DEF MayBecome, CallOK, TrueAnswer, Numbers
  <2> QED BY <1>1, <1>4, <2>1, AnswerInv, Names
<1>5. CASE Answer(c, 500)
  <2>1. MayBecome(c, "answered", calls[c].bin, 500, {})
    BY <1>1, <1>2, Names DEF MayBecome, CallOK, TrueAnswer
  <2> QED BY <1>1, <1>5, <2>1, AnswerInv, Names
<1>6. CASE Fail(c, "dob", 500)
  <2>1. MayBecome(c, "answered", calls[c].bin, 500, {"dob"})
    BY <1>1, <1>2, Names DEF MayBecome, CallOK, TrueAnswer
  <2> QED BY <1>1, <1>6, <2>1, FailInv, Names
<1>7. CASE Fail(c, "dob", NotFound(c))
  <2>1. MayBecome(c, "answered", calls[c].bin, NotFound(c), {"dob"})
    BY <1>1, <1>2, Names DEF MayBecome, CallOK, TrueAnswer
  <2> QED BY <1>1, <1>7, <2>1, FailInv, Names
<1> QED BY <1>3, <1>4, <1>5, <1>6, <1>7 DEF NewBuildings

LEMMA HeightInv == ASSUME Inv, NEW c \in Call, Height(c) PROVE Inv'
<1>1. Working(c) /\ calls[c].stage = "height" /\ UNCHANGED <<page, asked, crossed>>
  BY DEF Height, At, Working
<1>2. CallOK(c, calls[c]) /\ calls[c].address \in Address /\ calls[c].code = Null
  BY <1>1, AtStage DEF Working
<1>3. MayBecome(c, "answered", calls[c].bin, 200, {})
  BY <1>1, <1>2, Names DEF MayBecome, CallOK, TrueAnswer
<1> QED BY <1>1, <1>3, AnswerInv, Names DEF Height

(* The page asks for nothing, and nothing answers.                         *)
LEMMA QueryInv == ASSUME Inv, NEW a \in Address \cup {Null}, BuildAddressQuery(a) PROVE Inv'
<1>1. TypeOK'
  BY DEF Inv, TypeOK, BuildAddressQuery, Maybe
<1>2. CallsOK'
  BY DEF Inv, CallsOK, CallOK, TrueAnswer, BuildAddressQuery
<1>3. page'.field = page.field /\ page'.error = page.error
  BY DEF Inv, TypeOK, BuildAddressQuery
<1>4. PageOK'
  BY <1>3 DEF Inv, PageOK, Told, Pending, BuildAddressQuery
<1> QED BY <1>1, <1>2, <1>4 DEF Inv

(* A call that is made has an address, and is not answered.                *)
LEMMA MadeOK ==
  ASSUME Inv, NEW c \in Call, NEW a \in Address, NEW t \in Maybe(Tokens), Start(c, a, t)
  PROVE  /\ calls' \in [Call -> CallRecord] /\ \A d \in Call \ {c} : calls'[d] = calls[d]
         /\ calls'[c].address = a /\ calls'[c].stage = IF c \in Join THEN "captcha" ELSE "area"
         /\ CallsOK'
<1>1. calls \in [Call -> CallRecord] /\ CallOK(c, calls[c]) /\ calls[c].stage = "unused"
  BY DEF Inv, TypeOK, CallsOK, Start, At
<1>2. a \in Maybe(Address) /\ "captcha" \in Stage /\ "area" \in Stage
  BY DEF Maybe, Stage
<1>3. /\ calls' \in [Call -> CallRecord] /\ \A d \in Call \ {c} : calls'[d] = calls[d]
      /\ calls'[c].address = a /\ calls'[c].token = t
      /\ calls'[c].stage = IF c \in Join THEN "captcha" ELSE "area"
      /\ calls'[c].code = calls[c].code /\ calls'[c].broken = calls[c].broken
  BY <1>1, <1>2 DEF Start, CallRecord
<1>4. CallOK(c, calls'[c]) /\ TrueAnswer(c, calls'[c])
  BY <1>1, <1>3, Names DEF CallOK, TrueAnswer
<1>5. CallsOK'
  BY <1>3, <1>4 DEF Inv, CallsOK, CallOK, TrueAnswer
<1> QED BY <1>3, <1>5

LEMMA PostInv ==
  ASSUME Inv, NEW c \in Join, NEW a \in Address, NEW t \in Tokens, Post(c, a, t) PROVE Inv'
<1>1. c \in Call /\ t \in Maybe(Tokens) /\ c \notin Lookup
  BY GeocodeAssumption DEF Call, Maybe
<1>2. calls' \in [Call -> CallRecord] /\ (\A d \in Call \ {c} : calls'[d] = calls[d]) /\ CallsOK'
  BY <1>1, MadeOK DEF Post
<1>3. TypeOK'
  BY <1>2 DEF Inv, TypeOK, Post
<1>4. \A d \in Lookup : calls'[d] = calls[d]
  BY <1>1, <1>2 DEF Call
<1>5. PageOK'
  BY <1>4 DEF Inv, PageOK, Told, Pending, Post
<1> QED BY <1>2, <1>3, <1>5 DEF Inv

LEMMA ClickInv == ASSUME Inv, NEW c \in Lookup, Click(c) PROVE Inv'
<1>1. c \in Call /\ c \notin Join /\ Null \in Maybe(Tokens) /\ page.search \in Address
  BY GeocodeAssumption DEF Inv, TypeOK, Call, Maybe, Click
<1>2. /\ calls' \in [Call -> CallRecord] /\ (\A d \in Call \ {c} : calls'[d] = calls[d])
      /\ calls'[c].address = page.search /\ calls'[c].stage = "area" /\ CallsOK'
  BY <1>1, MadeOK DEF Click
<1>3. /\ page' \in [search : Maybe(Address), field : Maybe(Number), error : BOOLEAN]
      /\ page'.field = Null /\ page'.error = FALSE
  BY DEF Inv, TypeOK, Click, Maybe
<1>4. TypeOK'
  BY <1>1, <1>2, <1>3 DEF Inv, TypeOK, Click, Maybe
<1>5. ~crossed' => Pending' = {c}
  <2> SUFFICES ASSUME Pending = {} PROVE Pending' = {c}
    BY DEF Click
  <2> QED BY <1>2 DEF Pending, Call
<1>6. asked' # Null /\ asked' = calls'[c].address
  BY <1>1, <1>2, GeocodeAssumption DEF Click
<1>7. PageOK'
  BY <1>3, <1>5, <1>6 DEF PageOK
<1> QED BY <1>2, <1>4, <1>7 DEF Inv

LEMMA DeliverInv == ASSUME Inv, NEW c \in Call, Deliver(c) PROVE Inv'
<1>1. /\ c \in Lookup /\ calls[c] \in CallRecord /\ calls[c].stage = "answered"
      /\ TrueAnswer(c, calls[c])
  BY DEF Inv, TypeOK, CallsOK, Deliver, At
<1>2. Done \in CallRecord /\ CallOK(c, Done) /\ TrueAnswer(c, Done) /\ Done.stage = "delivered"
  BY GeocodeAssumption, Names DEF NoCall, Done, CallRecord, Stage, Service, Code, Maybe, CallOK, TrueAnswer
<1>3. /\ calls' \in [Call -> CallRecord] /\ calls'[c] = Done
      /\ \A d \in Call \ {c} : calls'[d] = calls[d]
  BY <1>2 DEF Inv, TypeOK, Deliver
<1>4. CallsOK'
  BY <1>2, <1>3 DEF Inv, CallsOK, CallOK, TrueAnswer
<1>5. /\ page' \in [search : Maybe(Address), field : Maybe(Number), error : BOOLEAN]
      /\ calls[c].code = 200 => page'.field = calls[c].bin /\ page'.error = page.error
      /\ calls[c].code # 200 => page'.field = page.field /\ page'.error = TRUE
  BY <1>1 DEF Inv, TypeOK, Deliver, Shown, CallRecord
<1>6. TypeOK'
  BY <1>3, <1>5 DEF Inv, TypeOK, Deliver
<1>7. Pending' = Pending \ {c} /\ c \in Pending
  BY <1>1, <1>2, <1>3 DEF Pending, Call
<1>8. PageOK'
  <2>1. asked' = asked /\ crossed' = crossed /\ asked # Null
    BY <1>7 DEF Inv, PageOK, Deliver
  <2> SUFFICES ASSUME ~crossed PROVE Pending' = {} /\ Told'
    BY <2>1 DEF PageOK
  <2>2. /\ Pending = {c} /\ calls[c].address = asked /\ page.field = Null /\ ~page.error
    BY <1>7, <2>1 DEF Inv, PageOK
  <2>3. Told'
    BY <1>1, <1>5, <2>1, <2>2 DEF Told, TrueAnswer
  <2> QED BY <1>7, <2>2, <2>3
<1> QED BY <1>4, <1>6, <1>8 DEF Inv

LEMMA NextInv == Inv /\ [Next]_vars => Inv'
<1> SUFFICES ASSUME Inv, [Next]_vars PROVE Inv'
  OBVIOUS
<1>1. CASE \E c \in Call : Retry(c) \/ Progress(c)
  BY <1>1, RetryInv, CaptchaInv, AreaInv, SearchInv, ParseInv, NewBuildingsInv, HeightInv, DeliverInv DEF Progress
<1>2. CASE \E a \in Address \cup {Null} : BuildAddressQuery(a)
  BY <1>2, QueryInv
<1>3. CASE \E c \in Lookup : Click(c)
  BY <1>3, ClickInv
<1>4. CASE \E c \in Join, a \in Address, t \in Tokens : Post(c, a, t)
  BY <1>4, PostInv
<1>5. CASE UNCHANGED vars
  BY <1>5 DEF vars, Inv, TypeOK, CallsOK, CallOK, TrueAnswer, PageOK, Told, Pending
<1> QED BY <1>1, <1>2, <1>3, <1>4, <1>5 DEF Next

LEMMA Always == Spec => []Inv
BY InitInv, NextInv, PTL DEF Spec

(* Calls and the page keep their types.                                    *)
THEOREM GeocodeTypes == Spec => []TypeOK
BY Always, PTL DEF Inv

(* An address that is found has the city's one number for it, or the       *)
(* placeholder that came as a text, and one that is not found has none     *)
(* that can be asked, whatever fails and however often it is asked again   *)
(* (validation.py l.117-176, l.223-255).                                   *)
THEOREM AnswersAreTrue == Spec => []AnswersTrue
<1>1. Inv => AnswersTrue
  BY DEF Inv, CallsOK, TrueAnswer, AnswersTrue, Of, Unnumbered
<1> QED BY <1>1, Always, PTL

(* Nothing is looked up for a sender that is not judged human              *)
(* (validation.py l.304-336).                                              *)
THEOREM OnlyHumansAreServed == Spec => []OnlyHumans
<1>1. Inv => OnlyHumans
  <2> SUFFICES ASSUME Inv, NEW c \in Join, calls[c].token # Null, ~At(c, "captcha"), calls[c].code # 401
               PROVE  \E failAll \in BOOLEAN : Human(calls[c].token, failAll)
    BY DEF OnlyHumans, Human
  <2>1. c \in Call /\ CallOK(c, calls[c])
    BY DEF Inv, CallsOK, Call
  <2> QED BY <2>1 DEF CallOK, At
<1> QED BY <1>1, Always, PTL

(* A page whose click has been answered, with none before it, shows the    *)
(* number of the address it asked for, or an error                         *)
(* (auto_populate_location.js l.69-91).                                    *)
THEOREM PageIsTold == Spec => []PageTold
<1>1. Inv => PageTold
  BY DEF Inv, PageOK, Told, PageTold
<1> QED BY <1>1, Always, PTL
====
