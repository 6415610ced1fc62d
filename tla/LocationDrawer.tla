--------------------------- MODULE LocationDrawer ---------------------------
(***************************************************************************)
(* The form of a location: LocationDrawer and TransportPresetFields        *)
(* (frontend/src/App.tsx) over the conversions of frontend/src/domain.ts,  *)
(* against what normalizeLocationInput makes of it (clients/clients.go).   *)
(*                                                                         *)
(* A stored transport payload becomes texts in fields, the fields become a *)
(* payload again, and the server checks and completes it; three tables of  *)
(* fields, defaults and supported pairs must agree for that.  One          *)
(* administrator opens, edits and saves one location.  Name, DNS address,  *)
(* room and the enabled box, which pass through as they are, are left out. *)
(***************************************************************************)
EXTENDS Integers

CONSTANTS Texts,         (* what a field may hold                           *)
          Numbers,       (* whole numbers                                   *)
          Fractions,     (* other numbers                                   *)
          NoNumber,      (* Number of a text that is none; null in JSON     *)
          jsNumber,      (* JavaScript's Number, String and trim            *)
          jsString,
          jsTrim,
          Keys,          (* texts of 64 hexadecimal digits                  *)
          AdvancedTexts, (* what may be typed as JSON: objects, by field,   *)
          NoObject,      (* or anything else                                *)
          NoLimit,
          NoRow,
          NoForm,
          MaxEdits       (* bound on changes of the form                    *)

Providers == {"telemost", "wbstream", "jitsi"}
Transports == {"datachannel", "vp8channel", "seichannel", "videochannel"}

(* The fields of a transport: the keys of payloadDefaults.  A field has    *)
(* the same default in every transport that has it.                        *)
FieldsOf(transport) ==
    CASE transport = "vp8channel" -> {"fps", "batch_size"}
      [] transport = "seichannel" -> {"fps", "batch_size", "fragment_size", "ack_timeout_ms"}
      [] transport = "videochannel" ->
           {"codec", "width", "height", "fps", "bitrate", "hw", "qr_recovery", "qr_size",
            "tile_module", "tile_rs"}
      [] OTHER -> {}
numericPayloadFields ==
    {"fps", "batch_size", "fragment_size", "ack_timeout_ms", "width", "height", "qr_size",
     "tile_module", "tile_rs"}
Optional == {"tile_module", "tile_rs"}
Fields == numericPayloadFields \cup {"codec", "bitrate", "hw", "qr_recovery"}

DefaultText ==
    [fps |-> "60", batch_size |-> "64", fragment_size |-> "900", ack_timeout_ms |-> "2000",
     codec |-> "qrcode", width |-> "1080", height |-> "1080", bitrate |-> "5000k", hw |-> "none",
     qr_recovery |-> "low", qr_size |-> "0", tile_module |-> "", tile_rs |-> ""]
transportDefaults(transport) == [f \in FieldsOf(transport) |-> DefaultText[f]]

(* What a field may be given: of a list, or typed.                         *)
Choices == {"qrcode", "tile", "none", "nvenc", "low", "medium", "high", "highest"}
Options(f) ==
    CASE f = "codec" -> {"qrcode", "tile"}
      [] f = "hw" -> {"none", "nvenc"}
      [] f = "qr_recovery" -> {"low", "medium", "high", "highest"}
      [] OTHER -> Texts

(* A number survives String and Number.                                     *)
ASSUME NumberAssumption ==
    /\ Numbers \subseteq Int
    /\ Fractions \cap Numbers = {}
    /\ {NoNumber, NoLimit} \cap (Numbers \cup Fractions) = {}
    /\ jsNumber \in [Texts -> Numbers \cup Fractions \cup {NoNumber}]
    /\ jsString \in [Numbers -> Texts]
    /\ \A n \in Numbers : /\ jsString[n] # ""
                         /\ jsNumber[jsString[n]] = n
                         /\ jsTrim[jsString[n]] = jsString[n]

ASSUME DefaultsAssumption == {0, 60, 64, 900, 1080, 2000} \subseteq Numbers

(* trim and Number disregard the spaces around a text; the texts of this   *)
(* module have none.                                                       *)
ASSUME TrimAssumption ==
    /\ jsTrim \in [Texts -> Texts]
    /\ \A t \in Texts : jsTrim[jsTrim[t]] = jsTrim[t] /\ jsNumber[jsTrim[t]] = jsNumber[t]
ASSUME TextAssumption ==
    /\ \A t \in Choices : t \in Texts /\ jsTrim[t] = t
    /\ \A f \in Fields : DefaultText[f] \in Texts /\ jsTrim[DefaultText[f]] = DefaultText[f]
    /\ \A t \in Keys : t \in Texts /\ jsTrim[t] = t /\ t # ""

ASSUME FormAssumption == NoObject \notin AdvancedTexts /\ MaxEdits \in Nat

VARIABLES
  row,      (* the stored location, or NoRow                               *)
  form,     (* the state of LocationDrawer, or NoForm                      *)
  edits,
  base,     (* history: the row the form was opened with                   *)
  touched,  (* history: the controls changed since                         *)
  outcome,  (* history: what became of the form, until it is changed       *)
  saved     (* history: the form that was saved                            *)

history == <<base, touched, outcome, saved>>
vars == <<row, form, edits, history>>

-----------------------------------------------------------------------------
(* domain.ts                                                               *)
providerTransports(provider) ==
    IF provider = "telemost" THEN {"vp8channel", "videochannel"} ELSE Transports
AnySupported(provider, transport) == TRUE
providerSupportsTransport(provider, transport) == transport \in providerTransports(provider)

(* What is no number is sent as none; a fraction is sent as it is.         *)
asNumberOrNull(text) ==
    IF jsTrim[text] = "" \/ jsNumber[text] = NoNumber THEN NoLimit ELSE jsNumber[text]

AsText(f, value) == IF f \in numericPayloadFields THEN jsString[value] ELSE value
AsValue(f, raw) == IF f \in numericPayloadFields THEN jsNumber[raw] ELSE raw

DefaultsAlone(transport, payload) == transportDefaults(transport)
formFromTransportPayload(transport, payload) ==
    [f \in FieldsOf(transport) |->
        IF f \in DOMAIN payload THEN AsText(f, payload[f]) ELSE DefaultText[f]]

SkipBlank(transport, values) ==
    [f \in {g \in FieldsOf(transport) : jsTrim[values[g]] # ""} |-> AsValue(f, jsTrim[values[f]])]
payloadFromTransportForm(transport, values) ==
    [f \in {g \in FieldsOf(transport) : jsTrim[values[g]] = "" => g \notin Optional} |->
        AsValue(f, jsTrim[values[f]])]

hasAdvancedTransportPayload(transport, payload) == ~(DOMAIN payload \subseteq FieldsOf(transport))
EmptyObject == [f \in {} |-> 0]

-----------------------------------------------------------------------------
(* What the server makes of an input (clients.go).                         *)
ValidateProviderTransport(provider, transport) ==
    \/ provider = "telemost" /\ transport \in {"vp8channel", "videochannel"}
    \/ provider \in {"jitsi", "wbstream"} /\ transport \in Transports

ServerFields(transport) ==
    CASE transport = "vp8channel" -> {"fps", "batch_size"}
      [] transport = "seichannel" -> {"fps", "batch_size", "fragment_size", "ack_timeout_ms"}
      [] transport = "videochannel" ->
           {"codec", "width", "height", "fps", "bitrate", "hw", "qr_recovery", "qr_size",
            "tile_module", "tile_rs"}
      [] OTHER -> {}
DefaultValue ==
    [fps |-> 60, batch_size |-> 64, fragment_size |-> 900, ack_timeout_ms |-> 2000,
     codec |-> "qrcode", width |-> 1080, height |-> 1080, bitrate |-> "5000k", hw |-> "none",
     qr_recovery |-> "low", qr_size |-> 0]

Valid(f) ==
    CASE f \in {"fps", "batch_size", "fragment_size", "ack_timeout_ms", "width", "height"} ->
           {n \in Numbers : n > 0}
      [] f = "qr_size" -> {n \in Numbers : n >= 0}
      [] f = "tile_module" -> Numbers \cap 1..270
      [] f = "tile_rs" -> Numbers \cap 0..200
      [] f = "bitrate" -> {t \in Texts : jsTrim[t] # ""}
      [] f = "codec" -> {"qrcode", "tile"}
      [] f = "hw" -> {"none", "nvenc"}
      [] f = "qr_recovery" -> {"low", "medium", "high", "highest"}

PayloadAccepted(transport, payload) ==
    /\ DOMAIN payload \subseteq ServerFields(transport)
    /\ \A f \in DOMAIN payload : payload[f] \in Valid(f)
NormalizeTransportPayload(transport, payload) ==
    [f \in DOMAIN payload \cup (ServerFields(transport) \ Optional) |->
        IF f \in DOMAIN payload THEN payload[f] ELSE DefaultValue[f]]

(* The limit and the key of an input; a fraction cannot be decoded into    *)
(* the integer the limit is.                                               *)
Limits == {NoLimit} \cup {n \in Numbers : n > 0}
KeysOrNone == {""} \cup Keys

-----------------------------------------------------------------------------
(* LocationDrawer: its state when it is opened.                            *)
LimitText(limit) == IF limit = NoLimit THEN "" ELSE jsString[limit]
Opened(location) ==
    IF location = NoRow
    THEN [provider |-> "wbstream", transport |-> "datachannel",
          values |-> formFromTransportPayload("datachannel", EmptyObject),
          advanced |-> FALSE, text |-> EmptyObject, limit |-> "", key |-> ""]
    ELSE [provider |-> location.provider, transport |-> location.transport,
          values |-> formFromTransportPayload(location.transport, location.payload),
          advanced |-> hasAdvancedTransportPayload(location.transport, location.payload),
          text |-> location.payload,
          limit |-> LimitText(location.limit),
          key |-> location.key]

Init ==
    /\ row = NoRow
    /\ form = NoForm
    /\ edits = 0
    /\ base = NoRow
    /\ touched = {}
    /\ outcome = "none"
    /\ saved = NoForm

Open ==
    /\ form = NoForm
    /\ form' = Opened(row)
    /\ base' = row /\ touched' = {} /\ outcome' = "none" /\ saved' = NoForm
    /\ UNCHANGED <<row, edits>>

Close ==
    /\ form # NoForm
    /\ form' = NoForm /\ outcome' = "none"
    /\ UNCHANGED <<row, edits, base, touched, saved>>

Edit(control) ==
    /\ form # NoForm
    /\ edits < MaxEdits /\ edits' = edits + 1
    /\ touched' = touched \cup {control}
    /\ outcome' = "none"
    /\ UNCHANGED <<row, base, saved>>

ChangeProvider(provider) ==
    Edit("provider") /\ form' = [form EXCEPT !.provider = provider]

(* The fields start from the defaults of the transport chosen.             *)
KeepValues(transport) ==
    Edit("transport") /\ form' = [form EXCEPT !.transport = transport, !.advanced = FALSE,
                                              !.text = EmptyObject]
ChangeTransport(transport) ==
    /\ Edit("transport")
    /\ form' = [form EXCEPT !.transport = transport,
                            !.values = transportDefaults(transport),
                            !.advanced = FALSE,
                            !.text = EmptyObject]

UpdatePayload(f, text) ==
    Edit(f) /\ f \in FieldsOf(form.transport) /\ form' = [form EXCEPT !.values[f] = text]

ToggleAdvanced ==
    Edit("advanced") /\ form' = [form EXCEPT !.advanced = ~@]
EditAdvanced(text) ==
    Edit("text") /\ form.advanced /\ form' = [form EXCEPT !.text = text]

TypeLimit(text) ==
    Edit("limit") /\ form' = [form EXCEPT !.limit = text]
TypeKey(text) ==
    Edit("key") /\ form' = [form EXCEPT !.key = text]

-----------------------------------------------------------------------------
(* submit, and the answer to what it sends.                                *)
Sent == IF form.advanced THEN form.text
        ELSE payloadFromTransportForm(form.transport, form.values)
Stoppable ==
    \/ ~providerSupportsTransport(form.provider, form.transport)
    \/ form.advanced /\ form.text = NoObject
Acceptable ==
    /\ ValidateProviderTransport(form.provider, form.transport)
    /\ PayloadAccepted(form.transport, Sent)
    /\ asNumberOrNull(form.limit) \in Limits
    /\ jsTrim[form.key] \in KeysOrNone

Stop ==
    /\ form # NoForm /\ Stoppable
    /\ outcome' = "stopped"
    /\ UNCHANGED <<row, form, edits, base, touched, saved>>
Refuse ==
    /\ form # NoForm /\ ~Stoppable /\ ~Acceptable
    /\ outcome' = "refused"
    /\ UNCHANGED <<row, form, edits, base, touched, saved>>

(* A blank key is generated for a new location and kept for another.       *)
Save ==
    /\ form # NoForm /\ ~Stoppable /\ Acceptable
    /\ \E key \in Keys :
         /\ jsTrim[form.key] # "" => key = jsTrim[form.key]
         /\ jsTrim[form.key] = "" /\ row # NoRow => key = row.key
         /\ row' = [provider |-> form.provider, transport |-> form.transport,
                    payload |-> NormalizeTransportPayload(form.transport, Sent),
                    limit |-> asNumberOrNull(form.limit), key |-> key]
    /\ form' = NoForm
    /\ outcome' = "saved" /\ saved' = form
    /\ UNCHANGED <<edits, base, touched>>

Next ==
    \/ Open \/ Close \/ ToggleAdvanced
    \/ \E provider \in Providers : ChangeProvider(provider)
    \/ \E transport \in Transports : ChangeTransport(transport)
    \/ \E f \in Fields : \E text \in Options(f) : UpdatePayload(f, text)
    \/ \E text \in AdvancedTexts \cup {NoObject} : EditAdvanced(text)
    \/ \E text \in Texts : TypeLimit(text) \/ TypeKey(text)
    \/ Stop \/ Refuse \/ Save
Spec == Init /\ [][Next]_vars

-----------------------------------------------------------------------------
Stored(transport, payload) ==
    /\ payload = [f \in DOMAIN payload |-> payload[f]]
    /\ FieldsOf(transport) \ Optional \subseteq DOMAIN payload
    /\ DOMAIN payload \subseteq FieldsOf(transport)
    /\ \A f \in DOMAIN payload : payload[f] \in Valid(f)

IsRow(r) ==
    /\ r = [provider |-> r.provider, transport |-> r.transport, payload |-> r.payload,
            limit |-> r.limit, key |-> r.key]
    /\ r.provider \in Providers /\ r.transport \in Transports
    /\ Stored(r.transport, r.payload)
    /\ r.limit \in Limits
    /\ r.key \in Keys

IsForm(f) ==
    /\ f = [provider |-> f.provider, transport |-> f.transport, values |-> f.values,
            advanced |-> f.advanced, text |-> f.text, limit |-> f.limit, key |-> f.key]
    /\ f.provider \in Providers /\ f.transport \in Transports
    /\ f.values \in [FieldsOf(f.transport) -> Texts]
    /\ f.advanced \in BOOLEAN
    /\ f.limit \in Texts /\ f.key \in Texts \cup {""}

DrawerTypeOK ==
    /\ row = NoRow \/ IsRow(row)
    /\ form = NoForm \/ IsForm(form)
    /\ edits \in 0..MaxEdits
    /\ base = NoRow \/ IsRow(base)
    /\ touched \subseteq Fields \cup {"provider", "transport", "advanced", "text", "limit", "key"}
    /\ outcome \in {"none", "stopped", "refused", "saved"}
    /\ saved = NoForm \/ IsForm(saved)

(* The same value of a field, or none in both; a text up to the spaces     *)
(* around it, which the form drops and the server keeps.                   *)
SameValue(f, p, q) ==
    /\ f \in DOMAIN p <=> f \in DOMAIN q
    /\ f \in DOMAIN p => IF f \in numericPayloadFields THEN p[f] = q[f] ELSE jsTrim[p[f]] = jsTrim[q[f]]

(* Saving a location changes nothing of it but what the administrator has  *)
(* changed: provider, transport, limit, key and every field of the payload *)
(* that was left alone keep their stored values through the texts and back *)
(* (formFromTransportPayload and payloadFromTransportForm, domain.ts:102,  *)
(* 112); so does the payload as a whole if its JSON was sent untouched.    *)
UntouchedKept ==
    outcome = "saved" /\ base # NoRow =>
        /\ "provider" \notin touched => row.provider = base.provider
        /\ "limit" \notin touched => row.limit = base.limit
        /\ "key" \notin touched => row.key = base.key
        /\ "transport" \notin touched =>
             /\ row.transport = base.transport
             /\ saved.advanced /\ "text" \notin touched => row.payload = base.payload
             /\ ~saved.advanced =>
                  \A f \in FieldsOf(row.transport) \ touched :
                     SameValue(f, row.payload, base.payload)

(* What a field shows when the form is opened again: numbers as String     *)
(* writes them, a blank size as 0, texts without the spaces around them.   *)
Canonical(f, text) ==
    IF f \in numericPayloadFields /\ (jsTrim[text] = "" => f \notin Optional)
    THEN jsString[jsNumber[text]] ELSE jsTrim[text]

(* What was saved from the fields is what they show when the location is   *)
(* opened again, nothing added by the server nor lost by the form; and no  *)
(* saved payload, typed as JSON or not, has a field that the form lacks    *)
(* (App.tsx:521-523, clients.go:456-511).                                  *)
SavedIsShown ==
    outcome = "saved" =>
        /\ row.provider = saved.provider /\ row.transport = saved.transport
        /\ ~hasAdvancedTransportPayload(row.transport, row.payload)
        /\ ~saved.advanced =>
             formFromTransportPayload(row.transport, row.payload) =
               [f \in FieldsOf(row.transport) |-> Canonical(f, saved.values[f])]

(* The form's own check stops every pair of provider and transport that    *)
(* the server would refuse and lets it refuse nothing but for a value that *)
(* is on the screen: of a field, of the limit, of the key, or in the JSON  *)
(* (App.tsx:546-556; domain.ts:6-10 and clients.go:427-444 agree).         *)
RefusedForCause ==
    outcome = "refused" =>
        \/ form.advanced
        \/ \E f \in FieldsOf(form.transport) :
              /\ jsTrim[form.values[f]] = "" => f \notin Optional
              /\ AsValue(f, jsTrim[form.values[f]]) \notin Valid(f)
        \/ asNumberOrNull(form.limit) \notin Limits
        \/ jsTrim[form.key] # "" /\ jsTrim[form.key] \notin Keys

-----------------------------------------------------------------------------
(* The inductive invariant behind the properties above.  The row does not  *)
(* change under an open form, and a control that was not touched shows     *)
(* what it showed when the form was opened.                                *)
FormFollowsRow ==
    form # NoForm =>
        /\ base = row
        /\ base # NoRow =>
             /\ "provider" \notin touched => form.provider = base.provider
             /\ "limit" \notin touched => form.limit = LimitText(base.limit)
             /\ "key" \notin touched => form.key = base.key
             /\ "transport" \notin touched =>
                  /\ form.transport = base.transport
                  /\ "text" \notin touched => form.text = base.payload
                  /\ \A f \in FieldsOf(form.transport) \ touched :
                       form.values[f] = formFromTransportPayload(base.transport, base.payload)[f]

DrawerInv ==
    /\ DrawerTypeOK
    /\ FormFollowsRow
    /\ outcome = "refused" => form # NoForm
    /\ UntouchedKept /\ SavedIsShown /\ RefusedForCause
=============================================================================
