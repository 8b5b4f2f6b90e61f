--------------------------------- MODULE Levels ---------------------------------
(***************************************************************************)
(* Security levels (conn.c, smp.c, hci_core.c): what applications require, *)
(* the features and the method of a pairing, the question that each method *)
(* asks the application, the key the link is encrypted with, and the bond  *)
(* that is left.  Both ends run this code, and meet again.                 *)
(*                                                                         *)
(* The PDUs that prove the secret of a method are two here, one from each  *)
(* end; the contexts and timers of a pairing are Smp's.  Both offer keys   *)
(* of the greatest length; CONFIG_BT_PRIVACY and SIGNING are off.  PDUs    *)
(* and events come to a host in one queue.  No buffer is missing.          *)
(***************************************************************************)
EXTENDS Naturals, SequencesExt, FiniteSetsExt

CONSTANTS
    Meetings,       \* [c, p: kits, bonds], bound: who meets, and the keys they have of before
    Levels,         \* bound: the levels applications ask for
    Forces,         \* bound: whether BT_SECURITY_FORCE_PAIR is asked for
    Requests,       \* [Roles -> Nat], bound: how often each application asks
    Links,          \* bound: how often they meet
    EnforceMitm,    \* CONFIG_BT_SMP_ENFORCE_MITM
    Overwrite       \* CONFIG_BT_SMP_ALLOW_UNAUTH_OVERWRITE

Roles == {"c", "p"}
Other(r) == IF r = "c" THEN "p" ELSE "c"

(* In a kit, sc is sc_supported, fixed that there is a fixed passkey, oobd oobd_present; callbacks *)
(* holds what bt_conn_auth_cb_register or the overlay of the connection has.                       *)
Callbacks == {"passkey_display", "passkey_entry", "passkey_confirm", "pairing_confirm",
              "oob_data_request", "pairing_accept"}
Kits == [callbacks : SUBSET Callbacks, sc : BOOLEAN, fixed : BOOLEAN, oobd : BOOLEAN, bondable : BOOLEAN]

(* struct bt_keys; ltk is the key the peripheral made, periph_ltk the same at the peripheral, each *)
(* as the number of its pairing; sized is enc_size.                                                *)
NoKeys == [types |-> {}, ltk |-> 0, auth |-> FALSE, sc |-> FALSE, sized |-> FALSE]
Keyrings == [types : SUBSET {"LTK", "LTK_P256", "PERIPH_LTK"}, ltk : Nat, auth : BOOLEAN, sc : BOOLEAN, sized : BOOLEAN]

\* What the module assumes of its constants; MCLayers asserts it of each instance.
LevelsAssumption ==
    /\ \A m \in Meetings : {m.c, m.p} \subseteq Kits /\ {m.bonds[r] : r \in Roles} \subseteq Keyrings
    /\ Levels \subseteq 2 .. 4 /\ Forces \subseteq BOOLEAN /\ {EnforceMitm, Overwrite} \subseteq BOOLEAN
    /\ Links \in Nat \ {0} /\ Requests \in [Roles -> Nat]

VARIABLES
    host,   \* the connection and its SMP context at each end
    inbox,  \* the PDUs and events for each
    link,   \* the link: up, the key it is encrypted with, the pairings so far
    told    \* not in the code: what each application asked for, and was told

vars == <<host, inbox, link, told>>

(* Flags are those of the context, and BT_CONN_FORCE_PAIR.  USER is CONSENT while the application *)
(* is asked for its consent; DELAYED stands for CFM_DELAYED and DHCHECK_WAIT.  A secret is what   *)
(* an end proves to the other: that it has no secret, has what one of them shows, or has the data *)
(* of one or both that came out of band.                                                          *)
Idle(kit, keys) == [kit |-> kit, keys |-> keys, sec |-> 1, required |-> 1, flags |-> {},
                    method |-> "JUST_WORKS", req |-> {}, rsp |-> {}, allowed |-> {}, secret |-> {},
                    theirs |-> {}, tk |-> 0]

Has(h, f) == f \in h.flags
Set(h, fs) == [h EXCEPT !.flags = @ \cup fs]
Clear(h, fs) == [h EXCEPT !.flags = @ \ fs]

-----------------------------------------------------------------------------
(* Features. *)

\* The values of IO capability, from BT_SMP_IO_DISPLAY_ONLY on.
DisplayOnly == 1
DisplayYesNo == 2
KeyboardOnly == 3
NoInputOutput == 4
KeyboardDisplay == 5

\* get_io_capa.
IoCapa(kit) ==
    LET can(cs) == cs \subseteq kit.callbacks
    IN  IF can({"passkey_display", "passkey_entry"}) /\ (can({"passkey_confirm"}) \/ ~kit.sc) THEN KeyboardDisplay
        ELSE IF kit.sc /\ can({"passkey_display", "passkey_confirm"}) THEN DisplayYesNo
        ELSE IF can({"passkey_entry"}) THEN IF kit.fixed THEN KeyboardDisplay ELSE KeyboardOnly
        ELSE IF can({"passkey_display"}) \/ kit.fixed THEN DisplayOnly
        ELSE NoInputOutput

\* get_auth, as the features it leaves of base, oob_flag, and io_capability.
Auth(h, base) ==
    (base \cap (IF h.kit.sc THEN {"SC"} ELSE {}))
        \cup (IF IoCapa(h.kit) # NoInputOutput /\ (EnforceMitm \/ h.required >= 3) THEN {"MITM"} ELSE {})
        \cup (IF h.kit.bondable THEN {"BONDING"} ELSE {})
Offer(h, base) == Auth(h, base) \cup (IF h.kit.oobd THEN {"OOB"} ELSE {})

J == "JUST_WORKS"
I == "PASSKEY_INPUT"
D == "PASSKEY_DISPLAY"
C == "PASSKEY_CONFIRM"
R == "PASSKEY_ROLE"

\* gen_method_legacy and gen_method_sc, by remote and local IO capability.
LegacyMethods == << <<J, J, I, J, I>>, <<J, J, I, J, I>>, <<D, D, I, J, D>>, <<J, J, J, J, J>>, <<D, D, I, J, R>> >>
ScMethods == << <<J, J, I, J, I>>, <<J, C, I, J, C>>, <<D, D, I, J, D>>, <<J, J, J, J, J>>, <<D, C, I, J, C>> >>

\* legacy_get_pair_method.
LegacyMethod(r, h, req, rsp, io) ==
    LET method == LegacyMethods[io][IoCapa(h.kit)]
    IN  CASE "OOB" \in req \cap rsp -> "LEGACY_OOB"
          [] "OOB" \notin req \cap rsp /\ "MITM" \notin req \cup rsp -> J
          [] OTHER -> IF method # R THEN method ELSE IF r = "c" THEN D ELSE I

\* get_pair_method.
Method(r, h, req, rsp, io) ==
    IF "SC" \notin req \cap rsp THEN LegacyMethod(r, h, req, rsp, io)
    ELSE CASE "OOB" \in req \cup rsp -> "LE_SC_OOB"
           [] "OOB" \notin req \cup rsp /\ "MITM" \notin req \cup rsp -> J
           [] OTHER -> ScMethods[io][IoCapa(h.kit)]

Bonded(k) == k.types \cap {"LTK", "LTK_P256"} # {}

\* smp_keys_check.
KeysCheck(h) ==
    /\ ~Has(h, "FORCE_PAIR") /\ Bonded(h.keys)
    /\ h.required >= 3 => h.keys.auth
    /\ h.required >= 4 => "LTK_P256" \in h.keys.types

\* update_keys_check.
UpdateKeysCheck(h) ==
    Bonded(h.keys) =>
        /\ "LTK_P256" \in h.keys.types => Has(h, "SC")
        /\ h.method = J => ~h.keys.auth /\ Overwrite

\* sec_level_reachable.
Reachable(h) ==
    /\ h.required >= 3 => IoCapa(h.kit) # NoInputOutput \/ "oob_data_request" \in h.kit.callbacks
    /\ h.required >= 4 => h.kit.sc

\* remote_sec_level_reachable.
RemoteReachable(h) ==
    /\ h.required >= 4 => Has(h, "SC")
    /\ h.required >= 3 => h.method # J

-----------------------------------------------------------------------------
(* The end of a pairing, and what the application is told. *)

(* A result is the end's host, what it sends, what it tells: <<>>, or whether it worked; and whether *)
(* it wants the link down.                                                                           *)
Result(h, pdus, says) == [h |-> h, pdus |-> pdus, says |-> says, drop |-> FALSE]

Pdu(t) == [t |-> t]
Done(h) == Result(h, <<>>, <<>>)

\* smp_reset.
Reset(r, h) == [h EXCEPT !.flags = @ \cap {"FORCE_PAIR"}, !.method = J,
                         !.allowed = {IF r = "c" THEN "SEC_REQ" ELSE "REQ"}]

\* bt_conn_security_changed: reset_pairing, and the callbacks.
Changed(h) == [h EXCEPT !.required = h.sec]

\* A pairing that fails forgets the keys it began with nothing, or had begun to distribute.
Forget(h) == IF ~h.keys.sized \/ Has(h, "KEYS_DISTR") THEN [h EXCEPT !.keys = NoKeys] ELSE h

\* smp_pairing_complete with an error, and bt_smp_encrypt_change where it waits for encryption.
Failed(r, h, pdus) ==
    LET waits == {"ENC_PENDING", "PAIRING"} \subseteq h.flags
    IN  IF Has(h, "KEYS_DISTR") THEN Result(Reset(r, Forget(h)), pdus, <<>>)
        ELSE Result(Reset(r, Changed(Forget(IF waits THEN Set(h, {"KEYS_DISTR"}) ELSE h))), pdus, <<FALSE>>)

\* smp_error.
Error(r, h) ==
    IF {"PAIRING", "ENC_PENDING", "SEC_REQ"} \cap h.flags # {} THEN Failed(r, h, <<Pdu("FAIL")>>)
    ELSE Result(h, <<Pdu("FAIL")>>, <<>>)

-----------------------------------------------------------------------------
(* To start. *)

\* smp_init.
Initial(h) == [h EXCEPT !.flags = @ \cap {"FORCE_PAIR"}, !.method = J, !.allowed = {"FAIL"},
                        !.secret = {}, !.theirs = {}]

\* smp_send_pairing_req, once it may.
PairingRequest(h) ==
    LET req == Offer(h, {"SC"})
    IN  Result([Set(Initial(h), {"PAIRING"}) EXCEPT !.req = req, !.allowed = @ \cup {"RSP", "SEC_REQ"}],
               <<[t |-> "REQ", features |-> req, io |-> IoCapa(h.kit)]>>, <<>>)

\* bt_conn_le_start_encryption; zero tells a key without EDIV and Rand.
Encrypt(h, zero, ltk) ==
    Result(Set(h, {"ENC_PENDING"}), <<[t |-> "LTK_REQUEST", zero |-> zero, ltk |-> ltk]>>, <<>>)
EncryptWith(h, keys) == Encrypt(h, "LTK_P256" \in keys.types, keys.ltk)

\* bt_smp_start_security: whether it may, and what it does.
MayStart(r, h) ==
    /\ {"PAIRING", "ENC_PENDING"} \cap h.flags = {}
    /\ Reachable(h) \/ KeysCheck(h)
Start(r, h) ==
    CASE r = "c" /\ KeysCheck(h) -> EncryptWith(h, h.keys)
      [] r = "c" /\ ~KeysCheck(h) -> PairingRequest(h)
      [] r = "p" -> Result(Set(Initial(h), {"SEC_REQ"}), <<[t |-> "SEC_REQ", features |-> Auth(h, {"SC"})]>>, <<>>)

-----------------------------------------------------------------------------
(* The features and the questions to the application. *)

Secretless == {"none"}

\* What is asked before the proofs: legacy_request_tk, smp_public_key, smp_public_key_periph; the
\* peripheral asks for consent unless it asked for security, the central if the peripheral did.
Question(r, h) ==
    LET shows == h.method = D
        consent == /\ h.method = J \/ (h.kit.fixed /\ shows)
                   /\ "pairing_confirm" \in h.kit.callbacks
                   /\ Has(h, "SEC_REQ") = (r = "c")
    IN  [Set(h, (IF consent THEN {"CONSENT"} ELSE {})
                 \cup (IF h.method \in {I, C, "LEGACY_OOB"} THEN {"USER"} ELSE {})
                 \cup (IF h.method = "LE_SC_OOB" THEN {"OOB_PENDING"} ELSE {}))
         EXCEPT !.secret = IF shows THEN {"shown", r} ELSE Secretless]
Waits(h) == {"CONSENT", "USER", "OOB_PENDING"} \cap h.flags # {}

\* The features of both are known: what smp_pairing_req and smp_pairing_rsp have in common.
Featured(r, h, req, rsp, io) ==
    LET set == Set(h, {"PAIRING"} \cup ({"SC"} \cap req \cap rsp)
                        \cup (IF "BONDING" \in req \cap rsp THEN {"BOND"} ELSE {}))
    IN  [set EXCEPT !.method = Method(r, set, req, rsp, io), !.req = req, !.rsp = rsp]

\* refuse is what the callback pairing_accept says.
Acceptable(h, refuse) ==
    /\ UpdateKeysCheck(h) /\ RemoteReachable(h)
    /\ refuse => "pairing_accept" \notin h.kit.callbacks
    /\ h.method \in {"LEGACY_OOB", "LE_SC_OOB"} => "oob_data_request" \in h.kit.callbacks

PairingResponse(h) ==
    Result([h EXCEPT !.allowed = @ \cup {"PROOF"}],
           <<[t |-> "RSP", features |-> h.rsp, io |-> IoCapa(h.kit)]>>, <<>>)
\* The confirm values, and the check of the DHKey, are made of the features, too.
Proven(h) == [secret |-> h.secret, req |-> h.req, rsp |-> h.rsp]
Prove(h) == Result([h EXCEPT !.allowed = @ \cup {"PROOF"}], <<[t |-> "PROOF", proof |-> Proven(h), tk |-> 0]>>, <<>>)

\* smp_pairing_req, legacy_pairing_req.
PairingReq(h, m, refuse) ==
    LET init == IF Has(h, "SEC_REQ") THEN h ELSE Initial(h)
        set == Featured("p", init, m.features, Offer(init, m.features), m.io)
        asked == Question("p", set)
    IN  CASE ~Acceptable(set, refuse) -> Error("p", set)
          [] Acceptable(set, refuse) /\ Has(asked, "CONSENT") -> Done(asked)
          [] OTHER -> PairingResponse(asked)

\* smp_pairing_rsp, legacy_pairing_rsp.
PairingRsp(h, m, refuse) ==
    LET set == Featured("c", h, h.req, m.features, m.io)
        asked == Question("c", IF Has(set, "SC") THEN [set EXCEPT !.allowed = @ \ {"SEC_REQ"}] ELSE set)
    IN  CASE ~Acceptable(set, refuse) -> Error("c", set)
          [] Acceptable(set, refuse) /\ Waits(asked) -> Done(asked)
          [] OTHER -> Prove(asked)

\* smp_security_request.
SecurityRequest(h, m) ==
    LET auth == m.features \ (IF h.kit.sc THEN {} ELSE {"SC"})
        useful == /\ Bonded(h.keys)
                  /\ "MITM" \in auth => h.keys.auth
                  /\ "SC" \in auth => "LTK_P256" \in h.keys.types
        pairing == PairingRequest(h)
    IN  CASE {"KEYS_DISTR", "PAIRING", "ENC_PENDING"} \cap h.flags # {} -> Done(h)
          [] {"KEYS_DISTR", "PAIRING", "ENC_PENDING"} \cap h.flags = {} /\ useful -> EncryptWith(h, h.keys)
          [] OTHER -> IF Reachable(h) THEN [pairing EXCEPT !.h = Set(@, {"SEC_REQ"})] ELSE Error("c", h)

-----------------------------------------------------------------------------
(* The proofs, and encryption. *)

\* smp_pairing_random, smp_dhkey_check, legacy_pairing_random: what is proved is the same.  tk is the
\* number of the pairing.
Verify(r, h, proof, tk) ==
    CASE Proven(h) # proof -> Error(r, h)
      [] Proven(h) = proof /\ r = "c" -> Encrypt([h EXCEPT !.tk = tk], TRUE, tk)
      [] Proven(h) = proof /\ r = "p" ->
            Result(Set([h EXCEPT !.tk = tk], {"ENC_PENDING"}),
                   <<[t |-> "PROOF", proof |-> Proven(h), tk |-> tk]>>, <<>>)

Proof(r, h, m, tk) ==
    IF Waits(h) THEN Done([Set(h, {"DELAYED"}) EXCEPT !.theirs = {m.proof}]) ELSE Verify(r, h, m.proof, tk)

\* legacy_user_tk_entry, le_sc_oob_pairing_continue, bt_smp_auth_passkey_entry and _confirm.
Continue(r, h, tk) ==
    CASE r = "c" -> Prove(h)
      [] r = "p" /\ Has(h, "DELAYED") -> Verify(r, Clear(h, {"DELAYED"}), CHOOSE x \in h.theirs : TRUE, tk)
      [] OTHER -> Done(h)

\* bt_smp_auth_pairing_confirm.
Consent(r, h) == IF r = "c" THEN Prove(h) ELSE PairingResponse(h)

\* bt_smp_request_ltk: the key, 0 for none, and what it leaves.
RequestLtk(h, m) ==
    CASE m.zero /\ {"PAIRING", "ENC_PENDING"} \subseteq h.flags -> [ltk |-> h.tk, res |-> Done(h)]
      [] ~(m.zero /\ {"PAIRING", "ENC_PENDING"} \subseteq h.flags)
            /\ (IF m.zero THEN "LTK_P256" ELSE "PERIPH_LTK") \in h.keys.types /\ (m.zero \/ m.ltk = h.keys.ltk) ->
            [ltk |-> h.keys.ltk, res |-> Done(Set(h, {"ENC_PENDING"}))]
      [] OTHER -> [ltk |-> 0, res |-> IF Has(h, "SEC_REQ") THEN Result(Reset("p", Changed(h)), <<>>, <<FALSE>>)
                                      ELSE Done(Reset("p", h))]

\* bt_smp_update_keys.
UpdateKeys(h) ==
    IF ~Has(h, "PAIRING") THEN h
    ELSE [h EXCEPT !.keys = [types |-> IF {"SC", "BOND"} \subseteq h.flags THEN {"LTK_P256"} ELSE {},
                             ltk |-> h.tk, auth |-> h.method # J, sc |-> Has(h, "SC"), sized |-> TRUE]]

\* update_sec_level.
LevelOf(keys) == IF ~keys.auth THEN 2 ELSE IF keys.sc THEN 4 ELSE 3

\* bt_smp_distribute_keys, for the one key there is: that of a legacy pairing.
Distribute(h) == [h EXCEPT !.keys.types = @ \cup {"PERIPH_LTK"}]

\* hci_encrypt_change, hci_encrypt_key_refresh_complete, and bt_smp_encrypt_change.  A pairing that
\* fails here fails as if it happened during key distribution.
EncryptFailed(r, h) ==
    LET failed == Changed(h)
    IN  Result(IF {"ENC_PENDING", "PAIRING"} \subseteq h.flags THEN Reset(r, Forget(Set(failed, {"KEYS_DISTR"})))
               ELSE Clear(failed, {"ENC_PENDING"}), <<>>, <<FALSE>>)
Encrypted(r, h) ==
    LET keyed == UpdateKeys(h)
        level == [keyed EXCEPT !.sec = LevelOf(keyed.keys)]
        short == level.required > level.sec
        known == Changed(level)
        next == [Set(Clear(known, {"ENC_PENDING"}), {"KEYS_DISTR"}) EXCEPT !.allowed = @ \cup {"KEYS"}]
        keys == "BOND" \in h.flags /\ "SC" \notin h.flags
    IN  CASE short -> [EncryptFailed(r, level) EXCEPT !.drop = TRUE]
          [] ~short /\ "ENC_PENDING" \notin h.flags -> Result(known, <<>>, <<TRUE>>)
          [] ~short /\ {"ENC_PENDING", "PAIRING"} \subseteq h.flags /\ keys ->
                IF r = "p" THEN Result(Distribute(next), <<[t |-> "KEYS", ltk |-> h.tk]>>, <<TRUE>>)
                ELSE Result(next, <<>>, <<TRUE>>)
          [] OTHER -> Result(Reset(r, known), <<>>, <<TRUE>>)

\* smp_encrypt_info, smp_central_ident: the last key ends the pairing.  required_sec_level is sec_level
\* by then, and bt_smp_start_security not called again.
Keys(r, h, m) ==
    IF r = "p" THEN Done(Reset(r, [h EXCEPT !.keys.types = @ \cup {"LTK"}]))
    ELSE Result(Reset(r, Distribute([h EXCEPT !.keys.types = @ \cup {"LTK"}, !.keys.ltk = m.ltk])),
                <<[t |-> "KEYS", ltk |-> h.tk]>>, <<>>)

\* smp_pairing_failed.
PairingFailed(r, h) == Failed(r, Clear(h, {"USER", "CONSENT"}), <<>>)

-----------------------------------------------------------------------------
(* Steps. *)

\* bt_smp_disconnected.
Disconnected(r, h) ==
    LET left == IF {"PAIRING", "ENC_PENDING", "SEC_REQ"} \cap h.flags # {} THEN Failed(r, h, <<>>).h ELSE h
    IN  [Idle(h.kit, IF left.keys.types = {} THEN NoKeys ELSE left.keys)
         EXCEPT !.allowed = {IF r = "c" THEN "SEC_REQ" ELSE "REQ"}]

\* The link of both ends is lost.
Down(h, t) ==
    /\ host' = [r \in Roles |-> Disconnected(r, h[r])]
    /\ inbox' = [r \in Roles |-> <<>>]
    /\ link' = [link EXCEPT !.up = FALSE, !.ltk = 0]
    /\ told' = [r \in Roles |-> [t[r] EXCEPT !.want = 0, !.over = FALSE]]

\* Ghost: the application of r hears of what it asked for last.  It is short if it hears that it has it,
\* with a lower level, and no later call failed.
Hears(r, said, sec) ==
    IF said = <<>> THEN told
    ELSE [told EXCEPT ![r].want = 0, ![r].over = FALSE,
                      ![r].short = @ \/ (said = <<TRUE>> /\ sec < told[r].want /\ ~told[r].over)]

\* Ghost: had is the bond, or the one it is to replace.
Weaker(new, old) == LevelOf(new) < LevelOf(old) \/ ("LTK_P256" \in old.types /\ "LTK_P256" \notin new.types)
Kept(r, keys, t) ==
    [t EXCEPT ![r].weaker = @ \/ (Bonded(keys) /\ Bonded(t[r].had) /\ Weaker(keys, t[r].had)),
              ![r].had = IF Bonded(keys) THEN keys ELSE IF keys.sized THEN @ ELSE NoKeys]

\* The result of r; queues are what is left after a message was taken.
Do(r, res, queues) ==
    LET h == [host EXCEPT ![r] = res.h]
        t == Kept(r, res.h.keys, Hears(r, res.says, res.h.sec))
    IN  IF res.drop THEN Down(h, t)
        ELSE /\ host' = h
             /\ inbox' = [queues EXCEPT ![Other(r)] = @ \o res.pdus]
             /\ told' = t
             /\ link' = [link EXCEPT !.pairings = Max({@} \cup {res.pdus[i].tk : i \in
                                                   {j \in DOMAIN res.pdus : res.pdus[j].t = "PROOF"}})]

\* bt_conn_set_security.  A call that fails takes back what an earlier one required, too.
SetSecurity(r, level, force) ==
    LET h == [IF force THEN Set(host[r], {"FORCE_PAIR"}) ELSE Clear(host[r], {"FORCE_PAIR"})
              EXCEPT !.required = level]
        res == Start(r, h)
    IN  /\ link.up /\ told[r].calls > 0
        /\ force \/ (host[r].sec < level /\ host[r].required < level)
        /\ IF MayStart(r, h)
           THEN /\ host' = [host EXCEPT ![r] = res.h]
                /\ inbox' = [inbox EXCEPT ![Other(r)] = @ \o res.pdus]
                /\ told' = [told EXCEPT ![r].calls = @ - 1, ![r].want = level]
           ELSE /\ host' = [host EXCEPT ![r] = Changed(h)]
                /\ told' = [told EXCEPT ![r].calls = @ - 1, ![r].over = told[r].want > 0]
                /\ UNCHANGED inbox
        /\ UNCHANGED link

\* bt_smp_recv: a PDU that is not expected fails a pairing.
Handled(r, h, m, refuse) ==
    LET taken == [h EXCEPT !.allowed = @ \ {m.t}]
    IN  CASE m.t \notin h.allowed -> IF Has(h, "PAIRING") THEN Error(r, h) ELSE Done(h)
          [] m.t \in h.allowed /\ m.t = "REQ" -> PairingReq(taken, m, refuse)
          [] m.t \in h.allowed /\ m.t = "RSP" -> PairingRsp(taken, m, refuse)
          [] m.t \in h.allowed /\ m.t = "SEC_REQ" -> SecurityRequest(taken, m)
          [] m.t \in h.allowed /\ m.t = "PROOF" -> Proof(r, taken, m, IF r = "c" THEN m.tk ELSE link.pairings + 1)
          [] m.t \in h.allowed /\ m.t = "KEYS" -> Keys(r, taken, m)
          [] m.t \in h.allowed /\ m.t = "FAIL" -> PairingFailed(r, taken)

Rest(r) == [inbox EXCEPT ![r] = Tail(@)]

Receive(r, refuse) ==
    /\ inbox[r] # <<>> /\ Head(inbox[r]).t \notin {"LTK_REQUEST", "ENCRYPTED"}
    /\ refuse => Head(inbox[r]).t \in {"REQ", "RSP"} /\ "pairing_accept" \in host[r].kit.callbacks
    /\ Do(r, Handled(r, host[r], Head(inbox[r]), refuse), Rest(r))

\* le_ltk_request, le_ltk_reply, le_ltk_neg_reply: with the key of the central the link is encrypted,
\* with another one it is lost, and so it is without a key if it was encrypted before.
LtkRequest ==
    LET m == Head(inbox["p"])
        got == RequestLtk(host["p"], m)
        event(ok) == <<[t |-> "ENCRYPTED", ok |-> ok]>>
        h == [host EXCEPT !["p"] = got.res.h]
        t == Hears("p", got.res.says, got.res.h.sec)
    IN  /\ inbox["p"] # <<>> /\ m.t = "LTK_REQUEST"
        /\ IF got.ltk # m.ltk /\ (got.ltk # 0 \/ link.ltk # 0) THEN Down(h, t)
           ELSE /\ host' = h /\ told' = t
                /\ link' = [link EXCEPT !.ltk = got.ltk]
                /\ inbox' = [Rest("p") EXCEPT !["c"] = @ \o event(got.ltk # 0),
                                              !["p"] = @ \o (IF got.ltk # 0 THEN event(TRUE) ELSE <<>>)]

EncryptChange(r) ==
    /\ inbox[r] # <<>> /\ Head(inbox[r]).t = "ENCRYPTED"
    /\ Do(r, IF Head(inbox[r]).ok THEN Encrypted(r, host[r]) ELSE EncryptFailed(r, host[r]), Rest(r))

(* What the user of an end can know: what the other shows. *)
Secret(r) == IF host[Other(r)].method = D THEN {"shown", Other(r)} ELSE {"shown"}

\* bt_conn_auth_pairing_confirm, _passkey_entry, _passkey_confirm, bt_le_oob_set_legacy_tk: the answer to
\* a question, right or wrong.
Answer(r, secret) ==
    LET h == Clear(host[r], {"CONSENT", "USER"})
    IN  /\ {"CONSENT", "USER"} \cap host[r].flags # {}
        /\ secret \in (IF Has(host[r], "CONSENT") THEN {host[r].secret}
                       ELSE CASE host[r].method = I -> {Secret(r), {"wrong", r}}
                              [] host[r].method = "LEGACY_OOB" -> {{"tk"}, {"wrong", r}}
                              [] OTHER -> {Secretless})
        /\ Do(r, IF Has(host[r], "CONSENT") THEN Consent(r, h)
                 ELSE Continue(r, [h EXCEPT !.secret = secret], link.pairings + 1), inbox)

\* bt_le_oob_set_sc_data; le_sc_oob_data_check refuses what is wrong of both.  The data of an end is here
\* its role, and an end has the other's if its own oob_flag says so.
OobData(r, data) ==
    LET h == [Clear(host[r], {"OOB_PENDING"}) EXCEPT !.secret = Secretless \cup data]
        own == IF r = "c" THEN host[r].req ELSE host[r].rsp
        other == IF r = "c" THEN host[r].rsp ELSE host[r].req
    IN  /\ Has(host[r], "OOB_PENDING")
        /\ ("OOB" \in own) = (Other(r) \in data) \/ ("OOB" \in other) = (r \in data)
        /\ Do(r, Continue(r, h, link.pairings + 1), inbox)

\* bt_conn_auth_cancel: it knows USER, not OOB_PENDING.
AuthCancel(r) ==
    /\ {"CONSENT", "USER"} \cap host[r].flags # {}
    /\ Do(r, Error(r, Clear(host[r], {"CONSENT", "USER"})), inbox)

\* An application disconnects, or the link is lost.
Disconnect == link.up /\ Down(host, told)

Connect ==
    /\ ~link.up /\ link.left > 0
    /\ link' = [link EXCEPT !.up = TRUE, !.left = @ - 1]
    /\ UNCHANGED <<host, inbox, told>>

Init ==
    \E m \in Meetings :
        /\ host = [r \in Roles |-> [Idle(m[r], m.bonds[r]) EXCEPT !.allowed = {IF r = "c" THEN "SEC_REQ" ELSE "REQ"}]]
        /\ inbox = [r \in Roles |-> <<>>]
        /\ link = [up |-> TRUE, ltk |-> 0, pairings |-> Max({m.bonds[r].ltk : r \in Roles}), left |-> Links - 1]
        /\ told = [r \in Roles |-> [calls |-> Requests[r], want |-> 0, over |-> FALSE, short |-> FALSE,
                                      had |-> m.bonds[r], weaker |-> FALSE]]

Next ==
    \/ \E r \in Roles, level \in Levels, force \in Forces : SetSecurity(r, level, force)
    \/ \E r \in Roles, refuse \in BOOLEAN : Receive(r, refuse)
    \/ LtkRequest
    \/ \E r \in Roles : EncryptChange(r) \/ AuthCancel(r)
    \/ \E r \in Roles : \E secret \in {Secret(r), {"wrong", r}, {"tk"}, Secretless} \cup {host[r].secret} : Answer(r, secret)
    \/ \E r \in Roles : \E data \in SUBSET Roles : OobData(r, data)
    \/ Disconnect \/ Connect

Spec == Init /\ [][Next]_vars

-----------------------------------------------------------------------------
Methods == {J, I, D, C, "LE_SC_OOB", "LEGACY_OOB"}

TypeOK ==
    /\ \A r \in Roles :
        /\ host[r].kit \in Kits /\ host[r].method \in Methods /\ host[r].keys \in Keyrings
        /\ {host[r].sec, host[r].required} \subseteq 1 .. 4 /\ told[r].want \in 0 .. 4
    /\ {link.ltk, link.pairings, link.left} \subseteq Nat

\* An application that hears that security has changed has the level it asked for, unless a later call
\* of its own failed: that takes back what the earlier one required (conn.c:2397).
LevelsReached == \A r \in Roles : ~told[r].short

\* Both ends have come to the proofs, of the same features.
Proving ==
    /\ \A r \in Roles : Has(host[r], "PAIRING") /\ "PROOF" \in host[r].allowed
    /\ host["c"].req = host["p"].req /\ host["c"].rsp = host["p"].rsp

\* The two methods fit: what one shows the other one enters, what one compares so does the other.
MethodsFit ==
    Proving => {<<host["c"].method, host["p"].method>>} \subseteq
        {<<m, m>> : m \in Methods \ {D}} \cup {<<D, I>>, <<I, D>>}

\* An application is asked only what it has a callback for, unless there is a fixed passkey: then an end
\* that can enter says that it can confirm, too (smp.c:328).
AskedAsAble ==
    \A r \in Roles :
        LET h == host[r]
        IN  Has(h, "USER") /\ ~h.kit.fixed =>
                /\ h.method = I => "passkey_entry" \in h.kit.callbacks
                /\ h.method = C => "passkey_confirm" \in h.kit.callbacks

Quiet == link.up /\ \A r \in Roles : inbox[r] = <<>> /\ host[r].flags \subseteq {"FORCE_PAIR"}

\* When nothing is under way both have the same level, require no other one, and a link with a level
\* is encrypted.
LevelsAgree ==
    Quiet => /\ host["c"].sec = host["p"].sec
             /\ \A r \in Roles : host[r].required = host[r].sec
             /\ (link.ltk # 0) = (host["c"].sec > 1)

\* A pairing whose secret came out of band has used it, unless only one end has data: with none from
\* either application both pass le_sc_oob_data_check (smp.c:5806).
OutOfBandIsUsed ==
    \A r \in Roles :
        LET h == host[r]
        IN  {"PAIRING", "ENC_PENDING"} \subseteq h.flags /\ h.method = "LE_SC_OOB" /\ "OOB" \in h.req \cap h.rsp =>
                h.secret # Secretless

\* Pairing again never leaves a weaker bond (update_keys_check).
BondsStayStrong == \A r \in Roles : ~told[r].weaker

LevelsHold == LevelsReached /\ MethodsFit /\ AskedAsAble /\ LevelsAgree /\ OutOfBandIsUsed /\ BondsStayStrong
=============================================================================
