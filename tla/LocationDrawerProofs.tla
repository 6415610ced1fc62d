------------------------ MODULE LocationDrawerProofs ------------------------
(***************************************************************************)
(* Proofs about the form of a location, for whatever texts and numbers     *)
(* there are: what is stored survives the texts and back, and nothing the  *)
(* form sends is refused but for a value on the screen.                    *)
(***************************************************************************)
EXTENDS LocationDrawer, TLAPS

(* What is assumed of texts and numbers, one fact at a time.               *)
LEMMA NumberFacts ==
    \A n \in Numbers : /\ n \in Int
                       /\ jsString[n] \in Texts /\ jsString[n] # ""
                       /\ jsNumber[jsString[n]] = n /\ jsTrim[jsString[n]] = jsString[n]
BY NumberAssumption

LEMMA TrimFacts ==
    \A t \in Texts : /\ jsTrim[t] \in Texts
                     /\ jsTrim[jsTrim[t]] = jsTrim[t] /\ jsNumber[jsTrim[t]] = jsNumber[t]
                     /\ jsNumber[t] \in Numbers \cup Fractions \cup {NoNumber}
BY NumberAssumption, TrimAssumption

(* The tables of the form and of the server name the same fields.          *)
LEMMA TablesAgree ==
    ASSUME NEW t \in Transports
    PROVE  /\ FieldsOf(t) \subseteq Fields
           /\ ServerFields(t) = FieldsOf(t)
BY DEF Transports, FieldsOf, ServerFields, Fields, numericPayloadFields

(* A valid value is a number in a numeric field and a text in another.     *)
LEMMA ValidValues ==
    ASSUME NEW f \in Fields, NEW v \in Valid(f)
    PROVE  IF f \in numericPayloadFields THEN v \in Numbers ELSE v \in Texts /\ jsTrim[v] # ""
<1>1. CASE f \in numericPayloadFields
  BY <1>1 DEF numericPayloadFields, Valid
<1>2. CASE f = "bitrate"
  BY <1>2 DEF numericPayloadFields, Valid
<1>3. CASE f \in {"codec", "hw", "qr_recovery"}
  <2>1. v \in Choices /\ v # ""
    BY <1>3 DEF Valid, Choices
  <2>2. v \in Texts /\ jsTrim[v] = v
    BY <2>1, TextAssumption
  <2> QED
    BY <1>3, <2>1, <2>2 DEF numericPayloadFields
<1> QED
  BY <1>1, <1>2, <1>3 DEF Fields

(* What the server fills in is valid.                                      *)
LEMMA DefaultsAreValid ==
    ASSUME NEW t \in Transports, NEW f \in FieldsOf(t) \ Optional
    PROVE  DefaultValue[f] \in Valid(f)
<1>1. f \in Fields \ Optional
  BY TablesAgree
<1>2. /\ DefaultValue["fps"] = 60 /\ DefaultValue["batch_size"] = 64
      /\ DefaultValue["fragment_size"] = 900 /\ DefaultValue["ack_timeout_ms"] = 2000
      /\ DefaultValue["width"] = 1080 /\ DefaultValue["height"] = 1080
      /\ DefaultValue["qr_size"] = 0
  BY DEF DefaultValue
<1>3. /\ DefaultValue["codec"] = "qrcode" /\ DefaultValue["hw"] = "none"
      /\ DefaultValue["qr_recovery"] = "low" /\ DefaultValue["bitrate"] = "5000k"
  BY DEF DefaultValue
<1>4. CASE f \in {"fps", "batch_size", "fragment_size", "ack_timeout_ms", "width", "height"}
  <2>1. DefaultValue[f] \in {60, 64, 900, 1080, 2000}
    BY <1>2, <1>4
  <2>2. DefaultValue[f] \in Numbers
    BY <2>1, DefaultsAssumption
  <2>3. DefaultValue[f] > 0
    BY <2>1
  <2> QED
    BY <1>4, <2>2, <2>3 DEF Valid
<1>5. CASE f = "qr_size"
  <2>1. 0 \in Numbers
    BY DefaultsAssumption
  <2> QED
    BY <1>2, <1>5, <2>1 DEF Valid
<1>6. CASE f = "bitrate"
  <2>1. "bitrate" \in Fields /\ DefaultText["bitrate"] = "5000k"
    BY DEF Fields, DefaultText
  <2>2. "5000k" \in Texts /\ jsTrim["5000k"] = "5000k"
    BY <2>1, TextAssumption
  <2> QED
    BY <1>3, <1>6, <2>2 DEF Valid
<1>7. CASE f \in {"codec", "hw", "qr_recovery"}
  BY <1>3, <1>7 DEF Valid
<1> QED
  BY <1>1, <1>4, <1>5, <1>6, <1>7 DEF Fields, numericPayloadFields, Optional

(* A valid value survives its text and back; a text loses the spaces       *)
(* around it.                                                              *)
LEMMA ValueSurvives ==
    ASSUME NEW f \in Fields, NEW v \in Valid(f)
    PROVE  /\ AsText(f, v) \in Texts
           /\ jsTrim[AsText(f, v)] # ""
           /\ AsValue(f, jsTrim[AsText(f, v)]) = IF f \in numericPayloadFields THEN v ELSE jsTrim[v]
<1>1. CASE f \in numericPayloadFields
  <2>1. v \in Numbers
    BY <1>1, ValidValues
  <2>2. jsString[v] \in Texts \ {""} /\ jsNumber[jsString[v]] = v /\ jsTrim[jsString[v]] = jsString[v]
    BY <2>1, NumberFacts
  <2> QED
    BY <1>1, <2>2 DEF AsText, AsValue
<1>2. CASE f \notin numericPayloadFields
  BY <1>2, ValidValues DEF AsText, AsValue
<1> QED
  BY <1>1, <1>2

(* A blank optional field is blank by default, too.                        *)
LEMMA OptionalIsBlank ==
    \A f \in Optional : /\ f \in Fields /\ f \in numericPayloadFields
                        /\ DefaultText[f] = "" /\ jsTrim[""] = "" /\ "" \in Texts
<1>1. DefaultText["tile_module"] = "" /\ DefaultText["tile_rs"] = ""
  BY DEF DefaultText
<1>2. Optional \subseteq Fields \cap numericPayloadFields
  BY DEF Optional, Fields, numericPayloadFields
<1>3. \A f \in Optional : DefaultText[f] = ""
  BY <1>1 DEF Optional
<1> QED
  BY <1>2, <1>3, TextAssumption

(* The form shows texts, whatever is stored.                               *)
LEMMA FormShowsTexts ==
    ASSUME NEW t \in Transports, NEW p, Stored(t, p)
    PROVE  formFromTransportPayload(t, p) \in [FieldsOf(t) -> Texts]
<1>1. ASSUME NEW f \in FieldsOf(t)
      PROVE  (IF f \in DOMAIN p THEN AsText(f, p[f]) ELSE DefaultText[f]) \in Texts
  <2>1. f \in Fields
    BY TablesAgree
  <2>2. f \in DOMAIN p => p[f] \in Valid(f)
    BY DEF Stored
  <2> QED
    BY <2>1, <2>2, ValueSurvives, TextAssumption
<1> QED
  BY <1>1 DEF formFromTransportPayload

(* What the server accepts and completes is a stored payload.              *)
LEMMA NormalizedIsStored ==
    ASSUME NEW t \in Transports, NEW p, PayloadAccepted(t, p)
    PROVE  Stored(t, NormalizeTransportPayload(t, p))
<1> DEFINE n == NormalizeTransportPayload(t, p)
           D == DOMAIN p \cup (FieldsOf(t) \ Optional)
<1>1. n = [f \in D |-> IF f \in DOMAIN p THEN p[f] ELSE DefaultValue[f]]
  BY TablesAgree DEF NormalizeTransportPayload
<1>2. DOMAIN n = D /\ D \subseteq FieldsOf(t)
  BY <1>1, TablesAgree DEF PayloadAccepted
<1>3. ASSUME NEW f \in D PROVE n[f] \in Valid(f)
  <2>1. CASE f \in DOMAIN p
    BY <1>1, <2>1 DEF PayloadAccepted
  <2>2. CASE f \notin DOMAIN p
    BY <1>1, <2>2, DefaultsAreValid
  <2> QED
    BY <2>1, <2>2
<1>4. n = [f \in DOMAIN n |-> n[f]]
  BY <1>1
<1>5. DOMAIN n \subseteq FieldsOf(t) /\ FieldsOf(t) \ Optional \subseteq DOMAIN n
  BY <1>2
<1>6. \A f \in DOMAIN n : n[f] \in Valid(f)
  BY <1>2, <1>3
<1> HIDE DEF n
<1>7. Stored(t, n)
  BY <1>4, <1>5, <1>6 DEF Stored
<1> QED
  BY <1>7 DEF n

(* The server changes nothing of what the fields send.                     *)
LEMMA FieldsAreStored ==
    ASSUME NEW t \in Transports, NEW values,
           PayloadAccepted(t, payloadFromTransportForm(t, values))
    PROVE  LET n == NormalizeTransportPayload(t, payloadFromTransportForm(t, values))
           IN  /\ DOMAIN n = {g \in FieldsOf(t) : jsTrim[values[g]] = "" => g \notin Optional}
               /\ \A f \in DOMAIN n : n[f] = AsValue(f, jsTrim[values[f]])
<1> DEFINE p == payloadFromTransportForm(t, values)
           S == {g \in FieldsOf(t) : jsTrim[values[g]] = "" => g \notin Optional}
<1>1. p = [f \in S |-> AsValue(f, jsTrim[values[f]])]
  BY DEF payloadFromTransportForm
<1>2. DOMAIN p \cup (ServerFields(t) \ Optional) = S
  BY <1>1, TablesAgree
<1>3. NormalizeTransportPayload(t, p) =
        [f \in S |-> IF f \in DOMAIN p THEN p[f] ELSE DefaultValue[f]]
  BY <1>2 DEF NormalizeTransportPayload
<1> QED
  BY <1>1, <1>3

-----------------------------------------------------------------------------
(* Initially there is neither form nor row.                                *)
LEMMA DrawerInit == Init => DrawerInv
BY FormAssumption DEF Init, DrawerInv, DrawerTypeOK, FormFollowsRow, UntouchedKept, SavedIsShown,
       RefusedForCause

(* An opened form is well-formed and shows its row.                        *)
LEMMA OpenedIsForm ==
    ASSUME NEW r, r = NoRow \/ IsRow(r)
    PROVE  IsForm(Opened(r))
<1>1. CASE r = NoRow
  <2>1. FieldsOf("datachannel") = {}
    BY DEF FieldsOf
  <2>2. formFromTransportPayload("datachannel", EmptyObject) \in [FieldsOf("datachannel") -> Texts]
    BY <2>1 DEF formFromTransportPayload
  <2>3. "" \in Texts
    BY OptionalIsBlank DEF Optional
  <2> QED
    BY <1>1, <2>2, <2>3 DEF Opened, IsForm, Providers, Transports
<1>2. CASE r # NoRow
  <2>1. IsRow(r)
    BY <1>2
  <2>2. formFromTransportPayload(r.transport, r.payload) \in [FieldsOf(r.transport) -> Texts]
    BY <2>1, FormShowsTexts DEF IsRow
  <2>3. hasAdvancedTransportPayload(r.transport, r.payload) \in BOOLEAN
    BY DEF hasAdvancedTransportPayload
  <2>4. LimitText(r.limit) \in Texts
    BY <2>1, OptionalIsBlank, NumberFacts DEF IsRow, Limits, LimitText, Optional
  <2>5. r.key \in Texts
    BY <2>1, TextAssumption DEF IsRow
  <2> QED
    BY <1>2, <2>1, <2>2, <2>3, <2>4, <2>5 DEF Opened, IsForm, IsRow
<1> QED
  BY <1>1, <1>2

-----------------------------------------------------------------------------
(* Every option of a field is a text.                                      *)
LEMMA OptionsAreTexts ==
    ASSUME NEW f \in Fields
    PROVE  Options(f) \subseteq Texts
<1>1. {"qrcode", "tile"} \subseteq Choices /\ {"none", "nvenc"} \subseteq Choices
      /\ {"low", "medium", "high", "highest"} \subseteq Choices
  BY DEF Choices
<1>2. Choices \subseteq Texts
  BY TextAssumption
<1> QED
  BY <1>1, <1>2 DEF Options

(* A stored limit survives its text and back.                              *)
LEMMA LimitSurvives ==
    ASSUME NEW limit \in Limits
    PROVE  asNumberOrNull(LimitText(limit)) = limit
<1>1. CASE limit = NoLimit
  <2>1. jsTrim[""] = ""
    BY OptionalIsBlank DEF Optional
  <2> QED
    BY <1>1, <2>1 DEF asNumberOrNull, LimitText
<1>2. CASE limit # NoLimit
  <2>1. limit \in Numbers
    BY <1>2 DEF Limits
  <2>2. NoNumber \notin Numbers
    BY NumberAssumption
  <2>3. /\ jsString[limit] # "" /\ jsNumber[jsString[limit]] = limit
        /\ jsTrim[jsString[limit]] = jsString[limit]
    BY <2>1, NumberFacts
  <2> QED
    BY <1>2, <2>1, <2>2, <2>3 DEF asNumberOrNull, LimitText
<1> QED
  BY <1>1, <1>2

(* A stored payload sent as it is, is stored as it is.                     *)
LEMMA StoredIsKept ==
    ASSUME NEW t \in Transports, NEW p, Stored(t, p)
    PROVE  NormalizeTransportPayload(t, p) = p
<1>1. DOMAIN p \cup (ServerFields(t) \ Optional) = DOMAIN p
  BY TablesAgree DEF Stored
<1>2. NormalizeTransportPayload(t, p) = [f \in DOMAIN p |-> p[f]]
  BY <1>1 DEF NormalizeTransportPayload
<1> QED
  BY <1>2 DEF Stored

(* A field that shows what was stored stores it again.                     *)
LEMMA FieldSurvives ==
    ASSUME NEW t \in Transports, NEW q, Stored(t, q), NEW values,
           NEW f \in FieldsOf(t), values[f] = formFromTransportPayload(t, q)[f],
           PayloadAccepted(t, payloadFromTransportForm(t, values))
    PROVE  SameValue(f, NormalizeTransportPayload(t, payloadFromTransportForm(t, values)), q)
<1> DEFINE n == NormalizeTransportPayload(t, payloadFromTransportForm(t, values))
<1>1. f \in Fields
  BY TablesAgree
<1>2. /\ f \in DOMAIN n <=> (jsTrim[values[f]] = "" => f \notin Optional)
      /\ f \in DOMAIN n => n[f] = AsValue(f, jsTrim[values[f]])
  BY FieldsAreStored
<1>3. values[f] = IF f \in DOMAIN q THEN AsText(f, q[f]) ELSE DefaultText[f]
  BY DEF formFromTransportPayload
<1> HIDE DEF n
<1>4. CASE f \in DOMAIN q
  <2>1. q[f] \in Valid(f)
    BY <1>4 DEF Stored
  <2>2. /\ jsTrim[values[f]] # ""
        /\ AsValue(f, jsTrim[values[f]]) =
             IF f \in numericPayloadFields THEN q[f] ELSE jsTrim[q[f]]
    BY <1>1, <1>3, <1>4, <2>1, ValueSurvives
  <2>3. f \notin numericPayloadFields => jsTrim[jsTrim[q[f]]] = jsTrim[q[f]]
    BY <1>1, <2>1, ValidValues, TrimFacts
  <2>4. f \in DOMAIN n
    BY <1>2, <2>2
  <2>5. IF f \in numericPayloadFields THEN n[f] = q[f] ELSE jsTrim[n[f]] = jsTrim[q[f]]
    BY <1>2, <2>2, <2>3, <2>4
  <2>6. SameValue(f, n, q)
    BY <1>4, <2>4, <2>5 DEF SameValue
  <2> QED
    BY <2>6 DEF n
<1>5. CASE f \notin DOMAIN q
  <2>1. f \in Optional
    BY <1>5 DEF Stored
  <2>2. jsTrim[values[f]] = ""
    BY <1>3, <1>5, <2>1, OptionalIsBlank
  <2>3. SameValue(f, n, q)
    BY <1>2, <1>5, <2>1, <2>2 DEF SameValue
  <2> QED
    BY <2>3 DEF n
<1> QED
  BY <1>4, <1>5

(* What was saved from the fields is what they show again.                 *)
LEMMA FieldIsShown ==
    ASSUME NEW t \in Transports, NEW values \in [FieldsOf(t) -> Texts],
           PayloadAccepted(t, payloadFromTransportForm(t, values))
    PROVE  LET n == NormalizeTransportPayload(t, payloadFromTransportForm(t, values))
           IN  formFromTransportPayload(t, n) =
                 [f \in FieldsOf(t) |-> Canonical(f, values[f])]
<1> DEFINE n == NormalizeTransportPayload(t, payloadFromTransportForm(t, values))
<1>1. DOMAIN n = {g \in FieldsOf(t) : jsTrim[values[g]] = "" => g \notin Optional}
  BY FieldsAreStored
<1>2. \A f \in DOMAIN n : n[f] = AsValue(f, jsTrim[values[f]])
  BY FieldsAreStored
<1> HIDE DEF n
<1>3. ASSUME NEW f \in FieldsOf(t)
      PROVE  (IF f \in DOMAIN n THEN AsText(f, n[f]) ELSE DefaultText[f])
               = Canonical(f, values[f])
  <2>1. values[f] \in Texts
    OBVIOUS
  <2>2. CASE f \in DOMAIN n
    <3>1. jsTrim[values[f]] = "" => f \notin Optional
      BY <1>1, <2>2
    <3>2. n[f] = AsValue(f, jsTrim[values[f]])
      BY <1>2, <2>2
    <3>3. jsNumber[jsTrim[values[f]]] = jsNumber[values[f]]
      BY <2>1, TrimFacts
    <3> QED
      BY <2>2, <3>1, <3>2, <3>3 DEF AsText, AsValue, Canonical
  <2>3. CASE f \notin DOMAIN n
    <3>1. f \in Optional /\ jsTrim[values[f]] = ""
      BY <1>1, <2>3
    <3> QED
      BY <2>3, <3>1, OptionalIsBlank DEF Canonical
  <2> QED
    BY <2>2, <2>3
<1>4. formFromTransportPayload(t, n) = [f \in FieldsOf(t) |-> Canonical(f, values[f])]
  BY <1>3 DEF formFromTransportPayload
<1> QED
  BY <1>4 DEF n

-----------------------------------------------------------------------------
(* Opening a form.                                                         *)
LEMMA OpenKeepsInv == DrawerInv /\ Open => DrawerInv'
<1> SUFFICES ASSUME DrawerInv, Open PROVE DrawerInv'
  OBVIOUS
<1>1. row = NoRow \/ IsRow(row)
  BY DEF DrawerInv, DrawerTypeOK
<1>2. IsForm(form')
  BY <1>1, OpenedIsForm DEF Open
<1>3. DrawerTypeOK'
  BY <1>1, <1>2 DEF DrawerInv, DrawerTypeOK, Open
<1>4. FormFollowsRow'
  BY DEF FormFollowsRow, Open, Opened
<1> QED
  BY <1>3, <1>4 DEF DrawerInv, Open, UntouchedKept, SavedIsShown, RefusedForCause

(* Closing it, and a submission that is stopped.                           *)
LEMMA CloseKeepsInv == DrawerInv /\ (Close \/ Stop) => DrawerInv'
<1> SUFFICES ASSUME DrawerInv, Close \/ Stop PROVE DrawerInv'
  OBVIOUS
<1>1. DrawerTypeOK'
  BY DEF DrawerInv, DrawerTypeOK, Close, Stop
<1>2. FormFollowsRow'
  BY DEF DrawerInv, FormFollowsRow, Close, Stop
<1> QED
  BY <1>1, <1>2 DEF DrawerInv, Close, Stop, UntouchedKept, SavedIsShown, RefusedForCause

(* A change of the form that leaves it well-formed and the controls not    *)
(* touched as they were.                                                   *)
LEMMA EditKeepsInv ==
    ASSUME DrawerInv,
           NEW control \in Fields \cup {"provider", "transport", "advanced", "text", "limit", "key"},
           Edit(control), IsForm(form'),
           control # "provider" => form'.provider = form.provider,
           control # "limit" => form'.limit = form.limit,
           control # "key" => form'.key = form.key,
           control # "transport" =>
             /\ form'.transport = form.transport
             /\ control # "text" => form'.text = form.text
             /\ \A f \in FieldsOf(form.transport) \ {control} : form'.values[f] = form.values[f]
    PROVE  DrawerInv'
<1>1. DrawerTypeOK'
  BY FormAssumption DEF DrawerInv, DrawerTypeOK, Edit
<1>2. FormFollowsRow'
  BY DEF DrawerInv, FormFollowsRow, Edit
<1> QED
  BY <1>1, <1>2 DEF DrawerInv, Edit, UntouchedKept, SavedIsShown, RefusedForCause

(* The changes themselves, one by one.                                     *)
LEMMA ChangesKeepInv ==
    ASSUME DrawerInv,
           \/ ToggleAdvanced
           \/ \E provider \in Providers : ChangeProvider(provider)
           \/ \E transport \in Transports : ChangeTransport(transport)
           \/ \E f \in Fields : \E text \in Options(f) : UpdatePayload(f, text)
           \/ \E text \in AdvancedTexts \cup {NoObject} : EditAdvanced(text)
           \/ \E text \in Texts : TypeLimit(text) \/ TypeKey(text)
    PROVE  DrawerInv'
<1>0. form # NoForm => IsForm(form)
  BY DEF DrawerInv, DrawerTypeOK
<1>1. CASE ToggleAdvanced
  <2>1. Edit("advanced") /\ IsForm(form)
    BY <1>0, <1>1 DEF ToggleAdvanced, Edit
  <2>2. IsForm(form')
    BY <1>1, <2>1 DEF ToggleAdvanced, IsForm
  <2> QED
    BY <1>1, <2>1, <2>2, EditKeepsInv DEF ToggleAdvanced, IsForm
<1>2. ASSUME NEW provider \in Providers, ChangeProvider(provider) PROVE DrawerInv'
  <2>1. Edit("provider") /\ IsForm(form)
    BY <1>0, <1>2 DEF ChangeProvider, Edit
  <2>2. IsForm(form')
    BY <1>2, <2>1 DEF ChangeProvider, IsForm
  <2> QED
    BY <1>2, <2>1, <2>2, EditKeepsInv DEF ChangeProvider, IsForm
<1>3. ASSUME NEW transport \in Transports, ChangeTransport(transport) PROVE DrawerInv'
  <2>1. Edit("transport") /\ IsForm(form)
    BY <1>0, <1>3 DEF ChangeTransport, Edit
  <2>2. transportDefaults(transport) \in [FieldsOf(transport) -> Texts]
    BY TablesAgree, TextAssumption DEF transportDefaults
  <2>3. IsForm(form')
    BY <1>3, <2>1, <2>2 DEF ChangeTransport, IsForm
  <2> QED
    BY <1>3, <2>1, <2>3, EditKeepsInv DEF ChangeTransport, IsForm
<1>4. ASSUME NEW f \in Fields, NEW text \in Options(f), UpdatePayload(f, text) PROVE DrawerInv'
  <2>1. Edit(f) /\ IsForm(form) /\ f \in FieldsOf(form.transport)
    BY <1>0, <1>4 DEF UpdatePayload, Edit
  <2>2. text \in Texts
    BY OptionsAreTexts
  <2>3. f \notin {"provider", "transport", "advanced", "text", "limit", "key"}
    BY DEF Fields, numericPayloadFields
  <2>4. form' = [form EXCEPT !.values[f] = text]
    BY <1>4 DEF UpdatePayload
  <2>5. IsForm(form')
    BY <2>1, <2>2, <2>4 DEF IsForm
  <2>6. /\ form'.provider = form.provider /\ form'.limit = form.limit /\ form'.key = form.key
        /\ form'.transport = form.transport /\ form'.text = form.text
        /\ \A g \in FieldsOf(form.transport) \ {f} : form'.values[g] = form.values[g]
    BY <2>1, <2>4 DEF IsForm
  <2> QED
    BY <2>1, <2>3, <2>5, <2>6, EditKeepsInv
<1>5. ASSUME NEW text \in AdvancedTexts \cup {NoObject}, EditAdvanced(text) PROVE DrawerInv'
  <2>1. Edit("text") /\ IsForm(form)
    BY <1>0, <1>5 DEF EditAdvanced, Edit
  <2>2. IsForm(form')
    BY <1>5, <2>1 DEF EditAdvanced, IsForm
  <2> QED
    BY <1>5, <2>1, <2>2, EditKeepsInv DEF EditAdvanced, IsForm
<1>6. ASSUME NEW text \in Texts, TypeLimit(text) PROVE DrawerInv'
  <2>1. Edit("limit") /\ IsForm(form)
    BY <1>0, <1>6 DEF TypeLimit, Edit
  <2>2. IsForm(form')
    BY <1>6, <2>1 DEF TypeLimit, IsForm
  <2> QED
    BY <1>6, <2>1, <2>2, EditKeepsInv DEF TypeLimit, IsForm
<1>7. ASSUME NEW text \in Texts, TypeKey(text) PROVE DrawerInv'
  <2>1. Edit("key") /\ IsForm(form)
    BY <1>0, <1>7 DEF TypeKey, Edit
  <2>2. IsForm(form')
    BY <1>7, <2>1 DEF TypeKey, IsForm
  <2> QED
    BY <1>7, <2>1, <2>2, EditKeepsInv DEF TypeKey, IsForm
<1> QED
  BY <1>1, <1>2, <1>3, <1>4, <1>5, <1>6, <1>7

(* The form's check and the server's allow the same pairs.                 *)
LEMMA PairsAgree ==
    ASSUME NEW provider \in Providers, NEW transport \in Transports
    PROVE  ValidateProviderTransport(provider, transport)
             <=> providerSupportsTransport(provider, transport)
BY DEF Providers, Transports, ValidateProviderTransport, providerSupportsTransport,
       providerTransports

(* A refusal.                                                              *)
LEMMA RefuseKeepsInv == DrawerInv /\ Refuse => DrawerInv'
<1> SUFFICES ASSUME DrawerInv, Refuse PROVE DrawerInv'
  OBVIOUS
<1>1. DrawerTypeOK' /\ FormFollowsRow'
  BY DEF DrawerInv, DrawerTypeOK, FormFollowsRow, Refuse
<1>2. IsForm(form)
  BY DEF DrawerInv, DrawerTypeOK, Refuse
<1>3. RefusedForCause'
  <2> SUFFICES ASSUME ~form.advanced, asNumberOrNull(form.limit) \in Limits,
                      jsTrim[form.key] \in KeysOrNone
               PROVE  \E f \in FieldsOf(form.transport) :
                         /\ jsTrim[form.values[f]] = "" => f \notin Optional
                         /\ AsValue(f, jsTrim[form.values[f]]) \notin Valid(f)
    BY DEF RefusedForCause, Refuse, KeysOrNone
  <2> DEFINE p == payloadFromTransportForm(form.transport, form.values)
  <2>1. ValidateProviderTransport(form.provider, form.transport)
    BY <1>2, PairsAgree DEF Refuse, Stoppable, IsForm
  <2>2. ~PayloadAccepted(form.transport, p)
    BY <2>1 DEF Refuse, Acceptable, Sent
  <2>3. /\ DOMAIN p = {g \in FieldsOf(form.transport) :
                          jsTrim[form.values[g]] = "" => g \notin Optional}
        /\ \A f \in DOMAIN p : p[f] = AsValue(f, jsTrim[form.values[f]])
    BY DEF payloadFromTransportForm
  <2>4. ServerFields(form.transport) = FieldsOf(form.transport)
    BY <1>2, TablesAgree DEF IsForm
  <2> HIDE DEF p
  <2>5. \E f \in DOMAIN p : p[f] \notin Valid(f)
    BY <2>2, <2>3, <2>4 DEF PayloadAccepted
  <2> QED
    BY <2>3, <2>5
<1> QED
  BY <1>1, <1>3 DEF DrawerInv, Refuse, UntouchedKept, SavedIsShown

(* A save: the new row is a row.                                           *)
LEMMA SaveStoresRow ==
    ASSUME DrawerInv, Save
    PROVE  /\ IsRow(row') /\ IsForm(form) /\ form.transport \in Transports
           /\ row'.provider = form.provider /\ row'.transport = form.transport
           /\ row'.payload = NormalizeTransportPayload(form.transport, Sent)
           /\ row'.limit = asNumberOrNull(form.limit)
           /\ jsTrim[form.key] # "" => row'.key = jsTrim[form.key]
           /\ PayloadAccepted(form.transport, Sent)
<1>1. IsForm(form)
  BY DEF DrawerInv, DrawerTypeOK, Save
<1>2. PayloadAccepted(form.transport, Sent) /\ asNumberOrNull(form.limit) \in Limits
  BY DEF Save, Acceptable
<1>3. Stored(form.transport, NormalizeTransportPayload(form.transport, Sent))
  BY <1>1, <1>2, NormalizedIsStored DEF IsForm
<1>4. PICK key \in Keys :
        /\ jsTrim[form.key] # "" => key = jsTrim[form.key]
        /\ row' = [provider |-> form.provider, transport |-> form.transport,
                   payload |-> NormalizeTransportPayload(form.transport, Sent),
                   limit |-> asNumberOrNull(form.limit), key |-> key]
  BY DEF Save
<1>5. form.provider \in Providers /\ form.transport \in Transports
  BY <1>1 DEF IsForm
<1>6. IsRow(row')
  BY <1>2, <1>3, <1>4, <1>5 DEF IsRow
<1> QED
  BY <1>1, <1>2, <1>4, <1>5, <1>6

(* Nothing that was left alone changes.                                    *)
LEMMA SaveKeepsUntouched ==
    ASSUME DrawerInv, Save
    PROVE  UntouchedKept'
<1> SUFFICES ASSUME base # NoRow
             PROVE  /\ "provider" \notin touched => row'.provider = base.provider
                    /\ "limit" \notin touched => row'.limit = base.limit
                    /\ "key" \notin touched => row'.key = base.key
                    /\ "transport" \notin touched =>
                         /\ row'.transport = base.transport
                         /\ form.advanced /\ "text" \notin touched => row'.payload = base.payload
                         /\ ~form.advanced =>
                              \A f \in FieldsOf(form.transport) \ touched :
                                 SameValue(f, row'.payload, base.payload)
  BY SaveStoresRow DEF UntouchedKept, Save
<1>1. IsRow(base)
  BY DEF DrawerInv, DrawerTypeOK
<1>2. FormFollowsRow /\ form # NoForm
  BY DEF DrawerInv, Save
<1>3. "provider" \notin touched => row'.provider = base.provider
  BY <1>2, SaveStoresRow DEF FormFollowsRow
<1>4. "limit" \notin touched => row'.limit = base.limit
  BY <1>1, <1>2, SaveStoresRow, LimitSurvives DEF FormFollowsRow, IsRow
<1>5. "key" \notin touched => row'.key = base.key
  <2>1. jsTrim[base.key] = base.key /\ base.key # ""
    BY <1>1, TextAssumption DEF IsRow
  <2> QED
    BY <1>2, <2>1, SaveStoresRow DEF FormFollowsRow
<1>6. ASSUME "transport" \notin touched
      PROVE  /\ row'.transport = base.transport
             /\ form.advanced /\ "text" \notin touched => row'.payload = base.payload
             /\ ~form.advanced => \A f \in FieldsOf(form.transport) \ touched :
                                     SameValue(f, row'.payload, base.payload)
  <2>1. /\ form.transport = base.transport
        /\ "text" \notin touched => form.text = base.payload
        /\ \A f \in FieldsOf(form.transport) \ touched :
             form.values[f] = formFromTransportPayload(base.transport, base.payload)[f]
    BY <1>2, <1>6 DEF FormFollowsRow
  <2>2. base.transport \in Transports /\ Stored(base.transport, base.payload)
    BY <1>1 DEF IsRow
  <2>3. row'.transport = base.transport
    BY <2>1, SaveStoresRow
  <2>4. form.advanced /\ "text" \notin touched => row'.payload = base.payload
    BY <2>1, <2>2, SaveStoresRow, StoredIsKept DEF Sent
  <2>5. ASSUME ~form.advanced, NEW f \in FieldsOf(form.transport) \ touched
        PROVE  SameValue(f, row'.payload, base.payload)
    <3>1. Sent = payloadFromTransportForm(base.transport, form.values)
      BY <2>1, <2>5 DEF Sent
    <3>2. PayloadAccepted(base.transport, payloadFromTransportForm(base.transport, form.values))
      BY <2>1, <3>1, SaveStoresRow
    <3>3. f \in FieldsOf(base.transport)
          /\ form.values[f] = formFromTransportPayload(base.transport, base.payload)[f]
      BY <2>1
    <3>4. SameValue(f, NormalizeTransportPayload(base.transport,
                         payloadFromTransportForm(base.transport, form.values)), base.payload)
      BY <2>2, <3>2, <3>3, FieldSurvives
    <3> QED
      BY <2>1, <3>1, <3>4, SaveStoresRow
  <2> QED
    BY <2>3, <2>4, <2>5
<1> QED
  BY <1>3, <1>4, <1>5, <1>6

(* What was saved is shown again.                                          *)
LEMMA SaveShowsSaved ==
    ASSUME DrawerInv, Save
    PROVE  SavedIsShown'
<1>1. /\ IsRow(row') /\ IsForm(form)
      /\ row'.provider = form.provider /\ row'.transport = form.transport
      /\ row'.payload = NormalizeTransportPayload(form.transport, Sent)
      /\ PayloadAccepted(form.transport, Sent)
  BY SaveStoresRow
<1>2. ~hasAdvancedTransportPayload(row'.transport, row'.payload)
  BY <1>1 DEF IsRow, Stored, hasAdvancedTransportPayload
<1>3. ASSUME ~form.advanced
      PROVE  formFromTransportPayload(row'.transport, row'.payload) =
               [f \in FieldsOf(row'.transport) |-> Canonical(f, form.values[f])]
  <2>1. Sent = payloadFromTransportForm(form.transport, form.values)
    BY <1>3 DEF Sent
  <2>2. form.transport \in Transports /\ form.values \in [FieldsOf(form.transport) -> Texts]
    BY <1>1 DEF IsForm
  <2>3. PayloadAccepted(form.transport, payloadFromTransportForm(form.transport, form.values))
    BY <1>1, <2>1
  <2>4. formFromTransportPayload(form.transport, NormalizeTransportPayload(form.transport,
                         payloadFromTransportForm(form.transport, form.values)))
          = [f \in FieldsOf(form.transport) |-> Canonical(f, form.values[f])]
    BY <2>2, <2>3, FieldIsShown
  <2> QED
    BY <1>1, <2>1, <2>4
<1>4. saved' = form
  BY DEF Save
<1> QED
  BY <1>1, <1>2, <1>3, <1>4 DEF SavedIsShown

LEMMA SaveKeepsInv == DrawerInv /\ Save => DrawerInv'
<1> SUFFICES ASSUME DrawerInv, Save PROVE DrawerInv'
  OBVIOUS
<1>1. DrawerTypeOK'
  BY SaveStoresRow DEF DrawerInv, DrawerTypeOK, Save
<1>2. FormFollowsRow'
  BY DEF FormFollowsRow, Save
<1> QED
  BY <1>1, <1>2, SaveKeepsUntouched, SaveShowsSaved DEF DrawerInv, Save, RefusedForCause

-----------------------------------------------------------------------------
(* The form follows its row, in every reachable state.                     *)
THEOREM DrawerInvariance == Spec => []DrawerInv
<1>1. DrawerInv /\ [Next]_vars => DrawerInv'
  <2> SUFFICES ASSUME DrawerInv, [Next]_vars PROVE DrawerInv'
    OBVIOUS
  <2>1. CASE Next
    BY <2>1, OpenKeepsInv, CloseKeepsInv, ChangesKeepInv, RefuseKeepsInv, SaveKeepsInv DEF Next
  <2>2. CASE UNCHANGED vars
    <3>1. DrawerTypeOK'
      BY <2>2 DEF vars, history, DrawerInv, DrawerTypeOK
    <3>2. FormFollowsRow'
      BY <2>2 DEF vars, history, DrawerInv, FormFollowsRow
    <3>3. UntouchedKept' /\ SavedIsShown'
      BY <2>2 DEF vars, history, DrawerInv, UntouchedKept, SavedIsShown
    <3>4. RefusedForCause'
      BY <2>2 DEF vars, history, DrawerInv, RefusedForCause
    <3> QED
      BY <2>2, <3>1, <3>2, <3>3, <3>4 DEF vars, history, DrawerInv
  <2> QED
    BY <2>1, <2>2
<1> QED
  BY <1>1, DrawerInit, PTL DEF Spec

(* Rows hold what the server's checks admit, forms hold texts.             *)
THEOREM DrawerTypes == Spec => []DrawerTypeOK
<1>1. DrawerInv => DrawerTypeOK
  BY DEF DrawerInv
<1> QED
  BY <1>1, DrawerInvariance, PTL

(* Saving a location changes nothing of it that was left alone.            *)
THEOREM EditKeepsTheRest == Spec => []UntouchedKept
<1>1. DrawerInv => UntouchedKept
  BY DEF DrawerInv
<1> QED
  BY <1>1, DrawerInvariance, PTL

(* What was saved is what the form shows when it is opened again.          *)
THEOREM ReopenedShowsSaved == Spec => []SavedIsShown
<1>1. DrawerInv => SavedIsShown
  BY DEF DrawerInv
<1> QED
  BY <1>1, DrawerInvariance, PTL

(* The server refuses nothing the form sends but for a value on it.        *)
THEOREM RefusalHasACause == Spec => []RefusedForCause
<1>1. DrawerInv => RefusedForCause
  BY DEF DrawerInv
<1> QED
  BY <1>1, DrawerInvariance, PTL
=============================================================================
