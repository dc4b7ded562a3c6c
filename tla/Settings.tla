------------------------------- MODULE Settings -------------------------------
(***************************************************************************)
(* The three configurations an administrator edits, each a single row: the *)
(* AI provider, the mail server and the object storage.  A PUT replaces    *)
(* the whole row; an empty secret means to keep the stored one, which is   *)
(* read by a statement of its own before the UPDATE.                       *)
(***************************************************************************)
EXTENDS Integers

CONSTANTS
  Admins,       \* requests served concurrently
  Bodies,       \* what requests carry: records [service, enabled, fields, secret]
  Blank, Spaces,\* the empty text, and one that is trimmed to it
  Odd, Long,    \* a text of the wrong form, and one wider than its column
  Preset,       \* the default of a field
  NoPut

Services == {"ai", "mail", "storage"}

\* What a body and a row are.
IsSetting(in) ==
  /\ in = [service |-> in.service, enabled |-> in.enabled, fields |-> in.fields, secret |-> in.secret]
  /\ in.service \in Services

ASSUME SettingsAssumption ==
  /\ \A body \in Bodies : IsSetting(body)
  /\ Blank \notin {Spaces, Odd, Long, Preset} /\ Preset \notin {Odd, Long}

VARIABLES
  config,       \* the row of each service
  put,          \* the PUT that each request is in
  overtaken     \* history: PUTs under way whose row another one has replaced since

settingsVars == <<config, put, overtaken>>

----------------------------------------------------------------------------
(* Normalize and validate, per service.                                    *)

Trim(v) == IF v = Spaces THEN Blank ELSE v
Trimmed(fields) == [f \in DOMAIN fields |-> Trim(fields[f])]

NormalizeAI(in) == [in EXCEPT !.fields = Trimmed(@), !.secret = Trim(@)]

NormalizeMail(in) ==
  [in EXCEPT !.secret = Trim(@),
             !.fields = [f \in DOMAIN @ |-> IF f \in {"port", "encryption"} /\ Trim(@[f]) = Blank
                                            THEN Preset ELSE Trim(@[f])]]

NormalizeStorage(in) == [in EXCEPT !.fields = Trimmed(@), !.secret = Trim(@)]

Fits(in) == in.secret # Long /\ \A f \in DOMAIN in.fields : in.fields[f] # Long

\* The key that validate sees is the stored one when the request has none.
ValidAI(in) ==
  /\ Fits(in)
  /\ in.fields.reasoningEffort # Odd /\ in.fields.baseUrl # Odd
  /\ in.enabled => Blank \notin {in.fields.baseUrl, in.fields.model, in.secret}

ValidMail(in) ==
  /\ Fits(in)
  /\ in.fields.port # Odd /\ in.fields.encryption # Odd
  /\ in.enabled => /\ in.fields.host # Blank /\ in.fields.username # Blank
                   /\ in.fields.fromAddress \notin {Blank, Odd}

\* The secret key is not asked for.
ValidStorage(in) ==
  /\ Fits(in)
  /\ in.fields.endpoint # Odd
  /\ in.enabled => Blank \notin {in.fields.endpoint, in.fields.bucket, in.fields.accessKey}

----------------------------------------------------------------------------
(* Migrate: the rows of the first start.                                   *)

Fresh(service, fields) ==
  [service |-> service, enabled |-> FALSE, fields |-> fields, secret |-> Blank]

AIRow == Fresh("ai", [baseUrl |-> Blank, model |-> Blank, reasoningEffort |-> Blank])
MailRow == Fresh("mail", [host |-> Blank, port |-> Preset, username |-> Blank,
                          fromAddress |-> Blank, encryption |-> Preset])
StorageRow == Fresh("storage", [endpoint |-> Blank, bucket |-> Blank, accessKey |-> Blank])

SettingsInit ==
  /\ config = [s \in Services |-> IF s = "ai" THEN AIRow
                                  ELSE IF s = "mail" THEN MailRow ELSE StorageRow]
  /\ put = [c \in Admins |-> NoPut]
  /\ overtaken = {}

----------------------------------------------------------------------------
Go(c, at, in) == put' = [put EXCEPT ![c] = [at |-> at, in |-> in]]
AnswerPut(c) == put' = [put EXCEPT ![c] = NoPut]

\* Without a key the stored one is read, and only then the whole is validated.
PutAI(c, body) ==
  LET in == NormalizeAI(body) IN
  /\ put[c] = NoPut /\ body.service = "ai"
  /\ \/ in.secret = Blank /\ Go(c, "keep", in)
     \/ in.secret # Blank /\ ValidAI(in) /\ Go(c, "update", in)
  /\ UNCHANGED <<config, overtaken>>

\* What the request brings is validated, and then a missing secret is read.
PutChecked(c, in, valid) ==
  /\ put[c] = NoPut /\ valid
  /\ Go(c, IF in.secret = Blank THEN "keep" ELSE "update", in)
  /\ UNCHANGED <<config, overtaken>>

PutMail(c, body) ==
  body.service = "mail" /\ PutChecked(c, NormalizeMail(body), ValidMail(NormalizeMail(body)))
PutStorage(c, body) ==
  body.service = "storage" /\ PutChecked(c, NormalizeStorage(body), ValidStorage(NormalizeStorage(body)))

\* Get: the secret of the row as it is now.
Kept(c) == [put[c].in EXCEPT !.secret = config[put[c].in.service].secret]

Keep(c, service, valid) ==
  /\ put[c] # NoPut /\ put[c].at = "keep" /\ put[c].in.service = service
  /\ IF valid THEN Go(c, "update", Kept(c)) ELSE AnswerPut(c)
  /\ overtaken' = overtaken \ {c}
  /\ UNCHANGED config

\* Mistake: the merged settings are not validated.
KeepAIUnchecked(c) == Keep(c, "ai", TRUE)

\* An incomplete row is refused.
KeepAI(c) == Keep(c, "ai", ValidAI(Kept(c)))
KeepMail(c) == Keep(c, "mail", TRUE)
KeepStorage(c) == Keep(c, "storage", TRUE)

\* One unconditional UPDATE of the whole row.
ReplaceRow(c, service) ==
  /\ put[c] # NoPut /\ put[c].at = "update" /\ put[c].in.service = service
  /\ config' = [config EXCEPT ![service] = put[c].in]
  /\ overtaken' = (overtaken \ {c}) \cup {d \in Admins \ {c} : put[d] # NoPut /\ put[d].in.service = service}
  /\ AnswerPut(c)

UpdateAI(c) == ReplaceRow(c, "ai")
UpdateMail(c) == ReplaceRow(c, "mail")
UpdateStorage(c) == ReplaceRow(c, "storage")

\* A failing statement is a 500.
FailPut(c) == put[c] # NoPut /\ AnswerPut(c) /\ overtaken' = overtaken \ {c} /\ UNCHANGED config

SettingsNext ==
  \E c \in Admins :
    \/ \E body \in Bodies : PutAI(c, body) \/ PutMail(c, body) \/ PutStorage(c, body)
    \/ KeepAI(c) \/ KeepMail(c) \/ KeepStorage(c)
    \/ UpdateAI(c) \/ UpdateMail(c) \/ UpdateStorage(c)
    \/ FailPut(c)

SettingsSpec == SettingsInit /\ [][SettingsNext]_settingsVars

----------------------------------------------------------------------------
(* Properties.                                                             *)

Usable(row) ==
  CASE row.service = "ai" -> ValidAI(row)
    [] row.service = "mail" -> ValidMail(row)
    [] row.service = "storage" -> ValidStorage(row)

\* What a PUT will write is complete, but for a key of the AI provider that it has
\* still to read; and it clears no secret unless another one overtook it.
PutOK(c) ==
  LET in == put[c].in IN
  /\ IsSetting(in) /\ put[c].at \in {"keep", "update"}
  /\ put[c].at = "keep" => in.secret = Blank /\ (in.service = "ai" \/ Usable(in))
  /\ put[c].at = "update" => /\ Usable(in)
                             /\ in.secret = Blank /\ c \notin overtaken => config[in.service].secret = Blank

SettingsIInv ==
  /\ config = [s \in Services |-> config[s]] /\ put = [c \in Admins |-> put[c]]
  /\ \A s \in Services : IsSetting(config[s]) /\ config[s].service = s /\ Usable(config[s])
  /\ \A c \in Admins : put[c] # NoPut => PutOK(c)

\* A row that is switched on is complete by its own rules, the kept key of the AI
\* provider included; and a secret that is set is cleared by nothing but a PUT
\* that looked before another one stored it (putSettings: "the stored secret can
\* therefore never be cleared through the API").
SettingsStand ==
  [][\A s \in Services :
       /\ Usable(config'[s])
       /\ config[s].secret # Blank /\ config'[s].secret = Blank
            => \E c \in overtaken : put'[c] = NoPut /\ config'[s] = put[c].in]_settingsVars
=============================================================================
