---------------------------------- MODULE Smp ----------------------------------
(***************************************************************************)
(* Pairing (smp.c): the contexts of bt_smp_pool, one per connection, the   *)
(* commands each accepts, and the controller's public key and DHKeys       *)
(* (ecc.c), of which it computes one at a time for all of them.            *)
(*                                                                         *)
(* Just Works, Passkey Entry and Numeric Comparison, as either role, with  *)
(* Secure Connections or without; out-of-band data, BR/EDR and signatures  *)
(* are left out, and so is CONFIG_BT_PRIVACY, which no example has: the    *)
(* host distributes its encryption key, of legacy pairing, alone.  The     *)
(* peer encrypts the link only when it is its turn; it sends any command.  *)
(* The two PDUs of a distributed key are one message here.                 *)
(***************************************************************************)
EXTENDS Naturals, SequencesExt, FiniteSetsExt

CONSTANTS
    Pool,       \* bt_smp_pool, as the numbers of its contexts
    Rounds,     \* 20: how many times Passkey Entry compares a bit
    Offers,     \* bound: what peers and host agree on
    Sendings    \* bound: what becomes of a PDU

Keys == {"ENC_KEY", "ID_KEY"}
Methods == {"JUST_WORKS", "PASSKEY_CONFIRM", "PASSKEY_INPUT", "PASSKEY_DISPLAY"}

\* Numeric Comparison needs Secure Connections; asks says whether pairing_confirm is there, bad
\* whether the offer is refused.
AllOffers == {o \in [sc : BOOLEAN, method : Methods, dist : SUBSET Keys, asks : BOOLEAN, bad : BOOLEAN] :
                o.sc \/ o.method # "PASSKEY_CONFIRM"}

\* A PDU is sent; bt_l2cap_send_cb has no context for it, and it is dropped; smp_create_pdu finds
\* no buffer.
AllSendings == {"sent", "dropped", "nobuf"}

\* What the module assumes of its constants; MCLayers asserts it of each instance.
SmpAssumption ==
    /\ Pool \subseteq Nat /\ IsFiniteSet(Pool) /\ Rounds \in Nat \ {0}
    /\ Offers \subseteq AllOffers /\ Sendings \subseteq AllSendings

VARIABLES
    smp,        \* the contexts
    gen,        \* dh_key_cb: the computation the controller was asked for
    pkey        \* sc_public_key: asked for, there, or refused

vars == <<smp, gen, pkey>>

Flags == {"PAIRING", "ENC_PENDING", "KEYS_DISTR", "TIMEOUT", "PKEY_SEND", "DHKEY_PENDING",
          "DHKEY_GEN", "DHKEY_SEND", "USER", "DHCHECK_WAIT", "SEC_REQ", "SC", "CFM_DELAYED"}
Commands == {"PAIRING_REQ", "PAIRING_RSP", "PAIRING_CONFIRM", "PAIRING_RANDOM", "PAIRING_FAIL",
             "SECURITY_REQUEST", "PUBLIC_KEY", "DHKEY_CHECK"} \cup Keys

NoGen == [asked |-> FALSE, by |-> 0, current |-> FALSE]

(* In a context, dhkey tells whose DHKey it holds, check whether the host's DHKey check was    *)
(* sent, outcome what the application heard of the last pairing, lost that a PDU of it was     *)
(* dropped, late that a key was acknowledged after its pairing, keySent that a key was sent    *)
(* and not acknowledged, in this pairing or before.  These are not in the code.                *)
Off == [role |-> "off", flags |-> {}, allowed |-> {}, method |-> "JUST_WORKS", round |-> 0,
        local |-> {}, remote |-> {}, timer |-> FALSE, keySent |-> "no",
        dhkey |-> "none", check |-> "none", outcome |-> "none", lost |-> FALSE, late |-> FALSE]

Has(s, f) == f \in s.flags
Set(s, fs) == [s EXCEPT !.flags = @ \cup fs]
Clear(s, fs) == [s EXCEPT !.flags = @ \ fs]
Allow(s, cmds) == [s EXCEPT !.allowed = @ \cup cmds]
Passkey(s) == s.method \in {"PASSKEY_INPUT", "PASSKEY_DISPLAY"}

-----------------------------------------------------------------------------
(* The end of a pairing. *)

\* smp_reset: local_dist and remote_dist stay.
Reset(s) == [s EXCEPT !.flags = {}, !.timer = FALSE, !.method = "JUST_WORKS",
                      !.allowed = IF s.role = "central" THEN {"SECURITY_REQUEST"} ELSE {"PAIRING_REQ"}]

Report(s) == [s EXCEPT !.outcome = IF @ = "open" THEN "ended" ELSE "twice"]

ReportOnce(s) == IF Has(s, "PAIRING") THEN Report(s) ELSE s

\* smp_pairing_complete with an error.  Unless keys were being distributed it tells the
\* connection, and bt_smp_encrypt_change ends a pairing that waits for encryption by itself.
Failed(s) ==
    LET told == ~Has(s, "KEYS_DISTR") /\ {"ENC_PENDING", "PAIRING"} \subseteq s.flags
    IN  Reset(ReportOnce(IF told THEN Reset(Report(s)) ELSE s))

\* smp_pairing_complete without one.
Completed(s) == Reset(Report(s))
WhenDistributed(s) == IF s.local = {} /\ s.remote = {} THEN Completed(s) ELSE s

\* smp_error; its own PDU needs a buffer, too.
Error(s, how) ==
    LET keysDone == Has(s, "KEYS_DISTR") /\ s.local = {} /\ s.remote = {}
        ended == IF {"PAIRING", "ENC_PENDING", "SEC_REQ"} \cap s.flags # {} THEN Failed(s) ELSE s
    IN  IF how = "nobuf" /\ ~keysDone THEN Set(ended, {"TIMEOUT"}) ELSE ended

-----------------------------------------------------------------------------
(* A handler returns the context and what is left to do: nothing, smp_error, generate_dhkey. *)

Result(s, next) == [s |-> s, next |-> next]

\* A wrong smp_send, which leaves the timer alone.
SentUntimed(s, how) == IF how = "sent" THEN s ELSE [s EXCEPT !.lost = TRUE]

\* smp_send: the 30 s start again, unless the PDU was dropped.
Sent(s, how) == IF how = "sent" THEN [s EXCEPT !.timer = TRUE] ELSE [s EXCEPT !.lost = TRUE]

Send(s, how, next) ==
    IF how = "nobuf" THEN Result(Set(s, {"TIMEOUT"}), "error") ELSE Result(Sent(s, how), next)

\* Ghost: whether the check that is sent is due.
Checked(s) == [s EXCEPT !.check = IF @ = "none" /\ s.dhkey = "own" /\ ~Has(s, "USER") THEN "sent"
                                  ELSE "undue"]

\* compute_and_send_central_dhcheck, compute_and_check_and_send_periph_dhcheck.
SendDhCheck(s, how, good) ==
    IF s.role = "central" THEN Send(Checked(Allow(s, {"DHKEY_CHECK"})), how, "done")
    ELSE IF ~good THEN Result(s, "error")
    ELSE LET r == Send(Checked(s), how, "done")
         IN  IF r.next = "error" THEN r ELSE Result(Set(r.s, {"ENC_PENDING"}), "done")

\* smp_init.
Initial(s) == [s EXCEPT !.flags = {}, !.allowed = {"PAIRING_FAIL"}, !.method = "JUST_WORKS",
                        !.round = 0, !.local = {}, !.remote = {}]

\* Ghost: a pairing begins.
Begin(s) == [Set(s, {"PAIRING"}) EXCEPT !.dhkey = "none", !.check = "none", !.outcome = "open",
                                        !.lost = FALSE, !.late = FALSE,
                                        !.keySent = IF @ = "no" THEN @ ELSE "stale"]

\* What both sides offered: a legacy pairing has keys of its own, and no Numeric Comparison.
Agreed(s, sc, method, dist) ==
    [Set(s, IF sc THEN {"SC"} ELSE {}) EXCEPT
        !.method = method, !.local = IF sc THEN {} ELSE dist \cap {"ENC_KEY"},
        !.remote = IF sc THEN dist \ {"ENC_KEY"} ELSE dist]

\* pairing_confirm is there, and asks for consent.
WaitForUser(s) == Result(Set(s, {"USER"}), "done")

\* smp_pairing_req, legacy_pairing_req and legacy_request_tk.
PairingReq(s, how, o) ==
    LET init == IF Has(s, "SEC_REQ") THEN s ELSE Initial(s)
        begun == Agreed(Begin(init), o.sc, o.method, o.dist)
        asked == IF ~o.sc /\ o.method = "PASSKEY_INPUT" THEN Set(begun, {"USER"}) ELSE begun
    IN  CASE o.bad -> Result(begun, "error")
          [] ~o.bad /\ o.asks /\ o.method = "JUST_WORKS" /\ ~Has(begun, "SEC_REQ") ->
                WaitForUser(begun)
          [] OTHER -> Send(Allow(asked, {IF o.sc THEN "PUBLIC_KEY" ELSE "PAIRING_CONFIRM"}),
                           how, "done")

\* smp_pairing_rsp and legacy_pairing_rsp.
PairingRsp(s, how, o) ==
    LET agreed == Agreed(s, o.sc, o.method, o.dist)
        consent == o.asks /\ o.method = "JUST_WORKS" /\ Has(s, "SEC_REQ")
    IN  CASE o.bad -> Result(agreed, "error")
          [] ~o.bad /\ consent -> WaitForUser(agreed)
          [] ~o.bad /\ ~consent /\ ~o.sc ->
                IF o.method = "PASSKEY_INPUT" THEN Result(Set(agreed, {"USER", "CFM_DELAYED"}), "done")
                ELSE Send(Allow(agreed, {"PAIRING_CONFIRM"}), how, "done")
          [] OTHER ->
                IF pkey # "ready" THEN Result(Set(agreed, {"PKEY_SEND"}), "done")
                ELSE Send([Allow(agreed, {"PUBLIC_KEY"}) EXCEPT !.allowed = @ \ {"SECURITY_REQUEST"}],
                          how, "done")

\* smp_public_key_periph.
PublicKeyPeriph(s, how) ==
    Send(CASE s.method = "PASSKEY_INPUT" -> Set(Allow(s, {"PAIRING_CONFIRM"}), {"USER"})
           [] s.method = "PASSKEY_DISPLAY" -> Allow(s, {"PAIRING_CONFIRM"})
           [] OTHER -> Allow(s, {"PAIRING_RANDOM"}),
         how, "generate")

\* smp_public_key.
PublicKey(s, how) ==
    CASE s.role = "peripheral" ->
            IF pkey # "ready" THEN Result(Set(s, {"PKEY_SEND"}), "done") ELSE PublicKeyPeriph(s, how)
      [] s.role = "central" /\ s.method = "PASSKEY_INPUT" -> Result(Set(s, {"USER"}), "generate")
      [] s.role = "central" /\ s.method = "PASSKEY_DISPLAY" ->
            Send(Allow(s, {"PAIRING_CONFIRM"}), how, "generate")
      [] OTHER -> Result(Allow(s, {"PAIRING_CONFIRM"}), "generate")

\* smp_pairing_confirm and legacy_pairing_confirm.
PairingConfirm(s, how) ==
    LET answered == Send(Allow(s, {"PAIRING_RANDOM"}), how, "done")
    IN  CASE s.role = "central" -> answered
          [] s.role = "peripheral" /\ Has(s, "SC") /\ ~Passkey(s) -> Result(s, "error")
          [] s.role = "peripheral" /\ (Has(s, "SC") => s.method = "PASSKEY_INPUT") /\ Has(s, "USER") ->
                Result(Set(s, {"CFM_DELAYED"}), "done")
          [] OTHER -> answered

\* smp_pairing_random and legacy_pairing_random.
PairingRandom(s, how) ==
    LET turn == IF Passkey(s) THEN [s EXCEPT !.round = @ + 1] ELSE s
        more == Passkey(s) /\ turn.round < Rounds
    IN  CASE ~Has(s, "SC") ->
                IF s.role = "central" THEN Result(Set(s, {"ENC_PENDING"}), "done")
                ELSE Send(Set(s, {"ENC_PENDING"}), how, "done")
          [] Has(s, "SC") /\ s.role = "central" ->
                CASE s.method = "PASSKEY_CONFIRM" -> Result(Set(s, {"USER", "DHKEY_SEND"}), "done")
                  [] more -> Send(Allow(turn, {"PAIRING_CONFIRM"}), how, "done")
                  [] s.method # "PASSKEY_CONFIRM" /\ ~more /\ Has(s, "DHKEY_PENDING") ->
                        Result(Set(turn, {"DHKEY_SEND"}), "done")
                  [] OTHER -> SendDhCheck(turn, how, TRUE)
          [] OTHER ->
                LET next == IF Passkey(s) THEN {"PAIRING_CONFIRM"} ELSE {}
                    asked == IF s.method = "PASSKEY_CONFIRM" THEN {"USER"} ELSE {}
                IN  Send(IF more THEN Allow(turn, next)
                         ELSE Set(Allow(turn, next \cup {"DHKEY_CHECK"}), asked \cup {"DHCHECK_WAIT"}),
                         how, "done")

\* smp_dhkey_check.
DhkeyCheck(s, how, good) ==
    LET heard == Clear(s, {"DHCHECK_WAIT"})
    IN  CASE s.role = "central" -> Result(Set(s, {"ENC_PENDING"}), "done")
          [] s.role = "peripheral" /\ {"DHKEY_PENDING", "USER"} \cap s.flags # {} ->
                Result(Set(heard, {"DHKEY_SEND"}), "done")
          [] OTHER -> SendDhCheck(heard, how, good)

\* The first of the peer's keys that is to come.
NextKey(s) == IF "ENC_KEY" \in s.remote THEN {"ENC_KEY"} ELSE s.remote \cap {"ID_KEY"}

\* bt_smp_distribute_keys and legacy_distribute_keys, which goes on without a buffer.
Distribute(s, how) ==
    IF s.local = {} THEN s
    ELSE IF how = "nobuf" THEN Set(s, {"TIMEOUT"})
    ELSE [Sent(s, how) EXCEPT !.keySent = IF how = "sent" THEN "yes" ELSE @]

\* A peripheral is the first to distribute its keys.
KeysFromPeer(s, how) ==
    WhenDistributed(IF s.role = "central" /\ s.remote = {} THEN Distribute(s, how) ELSE s)

\* smp_central_ident, after smp_encrypt_info, and smp_ident_addr_info, after smp_ident_info.
PeerKey(s, how, good, key) ==
    LET got == [s EXCEPT !.remote = @ \ {key}]
    IN  IF ~good THEN Result(got, "error")
        ELSE Result(KeysFromPeer(Allow(got, NextKey(got)), how), "done")

-----------------------------------------------------------------------------
(* The DHKeys.  g holds smp, gen and pkey, and changes context by context. *)

Find(g, f) == {c \in Pool : Has(g.smp[c], f)}
Put(g, c, s) == [g EXCEPT !.smp[c] = s]

\* smp_dhkey_generate: bt_dh_key_gen computes one DHKey at a time, even one nobody waits for.
DhkeyGenerate(g, c, how) ==
    IF g.gen.asked \/ g.pkey # "ready" THEN Put(g, c, Error(g.smp[c], how))
    ELSE [Put(g, c, Set(g.smp[c], {"DHKEY_GEN"})) EXCEPT
            !.gen = [asked |-> TRUE, by |-> c, current |-> TRUE]]

\* generate_dhkey.
GenerateDhkey(g, c, how) ==
    LET waiting == Put(g, c, Set(g.smp[c], {"DHKEY_PENDING"}))
    IN  IF Find(g, "DHKEY_GEN") # {} THEN waiting ELSE DhkeyGenerate(waiting, c, how)

Finish(g, c, r, how) ==
    CASE r.next = "done" -> Put(g, c, r.s)
      [] r.next = "error" -> Put(g, c, Error(r.s, how))
      [] r.next = "generate" -> GenerateDhkey(Put(g, c, r.s), c, how)

\* A wrong smp_dhkey_ready, which waits for the user alone.
DhkeyReadyAtOnce(s, how, good) ==
    IF Has(s, "USER") THEN Result(Set(s, {"DHKEY_SEND"}), "done") ELSE SendDhCheck(s, how, good)

\* smp_dhkey_ready and bt_smp_auth_passkey_confirm end alike: the check is sent when the DHKey,
\* the user and the peer's check are there, and if it was put off before.
DhkeyReady(s, how, good) ==
    CASE {"DHKEY_PENDING", "USER", "DHCHECK_WAIT"} \cap s.flags # {} ->
            Result(Set(s, {"DHKEY_SEND"}), "done")
      [] {"DHKEY_PENDING", "USER", "DHCHECK_WAIT"} \cap s.flags = {} /\ Has(s, "DHKEY_SEND") ->
            SendDhCheck(s, how, good)
      [] OTHER -> Result(s, "done")

\* The DHKey goes to the context that is marked.
Delivered(c, ok, how, good) ==
    LET s == Clear(smp[c], {"DHKEY_GEN"})
        own == IF gen.by = c /\ gen.current THEN "own" ELSE "other"
        got == [Clear(s, {"DHKEY_PENDING"}) EXCEPT !.dhkey = own]
    IN  IF ok THEN DhkeyReady(got, how, good) ELSE Result(s, "error")

\* The end of bt_smp_dhkey_ready: the next context's turn; asking cannot fail now.
ServeNext(g, how) ==
    IF Find(g, "DHKEY_PENDING") = {} THEN g
    ELSE DhkeyGenerate(g, Min(Find(g, "DHKEY_PENDING")), how)

-----------------------------------------------------------------------------
(* Steps. *)

G == [smp |-> smp, gen |-> gen, pkey |-> pkey]

\* The computation is of use as long as the pairing that asked for it goes on.
Becomes(g) ==
    /\ smp' = g.smp
    /\ gen' = [g.gen EXCEPT !.current = g.gen.asked /\ @ /\ Has(g.smp[g.gen.by], "PAIRING")]

Change(c, s) == Becomes(Put(G, c, s)) /\ UNCHANGED pkey
Done(c, r, how) == Becomes(Finish(G, c, r, how)) /\ UNCHANGED pkey

Up(c) == smp[c].role # "off"

\* bt_smp_recv: after a timeout commands are ignored; one that is expected is expected once.
Expected(c, cmd) == cmd \in smp[c].allowed /\ ~Has(smp[c], "TIMEOUT")
Taken(c, cmd) == [smp[c] EXCEPT !.allowed = @ \ {cmd}]

\* bt_smp_recv, and the handlers' own tests, of a command that is not what it should be.
RecvWrong(c, cmd, how) ==
    Expected(c, cmd) /\ Done(c, Result(Taken(c, cmd), "error"), how)

\* bt_smp_recv of a command that is not expected.
RecvUnexpected(c, how) ==
    Up(c) /\ Has(smp[c], "PAIRING") /\ ~Has(smp[c], "TIMEOUT") /\ Done(c, Result(smp[c], "error"), how)

RecvPairingReq(c, how, o) ==
    Expected(c, "PAIRING_REQ") /\ Done(c, PairingReq(Taken(c, "PAIRING_REQ"), how, o), how)
RecvPairingRsp(c, how, o) ==
    Expected(c, "PAIRING_RSP") /\ Done(c, PairingRsp(Taken(c, "PAIRING_RSP"), how, o), how)
RecvPublicKey(c, how) ==
    Expected(c, "PUBLIC_KEY") /\ Done(c, PublicKey(Taken(c, "PUBLIC_KEY"), how), how)
\* After the last bit a peripheral still expects a confirm value; the peer sends none.
RecvPairingConfirm(c, how) ==
    /\ Expected(c, "PAIRING_CONFIRM") /\ smp[c].round < Rounds
    /\ Done(c, PairingConfirm(Taken(c, "PAIRING_CONFIRM"), how), how)
RecvPairingRandom(c, how) ==
    Expected(c, "PAIRING_RANDOM") /\ Done(c, PairingRandom(Taken(c, "PAIRING_RANDOM"), how), how)
RecvDhkeyCheck(c, how, good) ==
    Expected(c, "DHKEY_CHECK") /\ Done(c, DhkeyCheck(Taken(c, "DHKEY_CHECK"), how, good), how)
RecvKey(c, how, good, key) ==
    Expected(c, key) /\ Done(c, PeerKey(Taken(c, key), how, good, key), how)
RecvPairingFail(c) ==
    Expected(c, "PAIRING_FAIL") /\ Change(c, Failed(Clear(Taken(c, "PAIRING_FAIL"), {"USER"})))

\* smp_send_pairing_req, where nothing else goes on.
SendPairingReq(s, how) ==
    LET begun == [Allow(Begin(Initial(s)), {"PAIRING_RSP", "SECURITY_REQUEST"}) EXCEPT
                    !.local = {"ENC_KEY"}, !.remote = Keys]
    IN  IF how = "nobuf" THEN Result(Set(Initial(s), {"TIMEOUT"}), "error")
        ELSE Result(Sent(begun, how), "done")

\* smp_security_request: the link is encrypted with stored keys, or the devices pair.
RecvSecurityRequest(c, how, keys) ==
    LET s == Taken(c, "SECURITY_REQUEST")
        r == SendPairingReq(s, how)
    IN  /\ Expected(c, "SECURITY_REQUEST")
        /\ Done(c, CASE {"KEYS_DISTR", "PAIRING", "ENC_PENDING"} \cap s.flags # {} -> Result(s, "done")
                     [] {"KEYS_DISTR", "PAIRING", "ENC_PENDING"} \cap s.flags = {} /\ keys ->
                           Result(Set(s, {"ENC_PENDING"}), "done")
                     [] OTHER -> IF r.next = "error" THEN r ELSE Result(Set(r.s, {"SEC_REQ"}), "done"),
                how)

\* bt_smp_start_security; a central that has no keys pairs.
StartSecurity(c, how, keys) ==
    /\ smp[c].role = "central" /\ {"PAIRING", "ENC_PENDING"} \cap smp[c].flags = {}
    /\ \/ keys /\ Change(c, Allow(Set(smp[c], {"ENC_PENDING"}), {"SECURITY_REQUEST"}))
       \/ ~keys /\ ~Has(smp[c], "TIMEOUT") /\ Change(c, SendPairingReq(smp[c], how).s)

\* smp_send_security_req: dropped, it leaves the context without the command it waits for.
SendSecurityReq(c, how) ==
    /\ smp[c].role = "peripheral" /\ {"TIMEOUT", "PAIRING", "ENC_PENDING"} \cap smp[c].flags = {}
    /\ LET s == Initial(smp[c])
       IN  Change(c, CASE how = "nobuf" -> Set(s, {"TIMEOUT"})
                       [] how = "dropped" -> s
                       [] how = "sent" -> Allow(Set(s, {"SEC_REQ"}), {"PAIRING_REQ"}))

\* bt_smp_request_ltk: the key of a pairing is given out once ENC_PENDING is set, which stays.
LtkRequest(c, keys) ==
    /\ smp[c].role = "peripheral" /\ ~Has(smp[c], "PAIRING")
    /\ Change(c, IF keys THEN Set(smp[c], {"ENC_PENDING"}) ELSE Reset(smp[c]))

\* hci_encrypt_change, with bt_smp_update_keys, and bt_smp_encrypt_change.
EncryptChange(c, ok, how, keys) ==
    /\ Has(smp[c], "ENC_PENDING")
    /\ LET s == Clear(smp[c], {"ENC_PENDING"})
           distr == Allow(Set(s, {"KEYS_DISTR"}), NextKey(s))
       IN  Change(c,
             CASE ~Has(s, "PAIRING") -> IF ok THEN Reset(s) ELSE s
               [] Has(s, "PAIRING") /\ ~ok -> Failed(Set(s, {"KEYS_DISTR"}))
               [] Has(s, "PAIRING") /\ ok /\ ~keys -> Error(smp[c], how)
               [] OTHER -> IF s.role = "central" /\ s.remote # {} THEN distr
                           ELSE WhenDistributed(Distribute(distr, how)))

\* smp_ident_sent, through smp_check_complete, whatever became of the pairing.
KeySent(c) ==
    /\ smp[c].keySent # "no"
    /\ LET s == [smp[c] EXCEPT !.keySent = "no", !.local = {},
                    !.late = @ \/ smp[c].keySent = "stale" \/ ~Has(smp[c], "PAIRING")]
       IN  Change(c, WhenDistributed(s))

-----------------------------------------------------------------------------
(* The user. *)

\* bt_smp_auth_passkey_confirm.
PasskeyConfirm(c, how, good) ==
    /\ Has(smp[c], "USER") /\ smp[c].method = "PASSKEY_CONFIRM"
    /\ Done(c, DhkeyReady(Clear(smp[c], {"USER"}), how, good), how)

\* bt_smp_auth_passkey_entry, with legacy_user_tk_entry.
PasskeyEntry(c, how) ==
    /\ Has(smp[c], "USER") /\ smp[c].method = "PASSKEY_INPUT"
    /\ LET s == Clear(smp[c], {"USER", "CFM_DELAYED"})
       IN  Done(c, CASE s.role = "central" -> Send(Allow(s, {"PAIRING_CONFIRM"}), how, "done")
                     [] s.role = "peripheral" /\ Has(smp[c], "CFM_DELAYED") ->
                           Send(Allow(s, {"PAIRING_RANDOM"}), how, "done")
                     [] OTHER -> Result(s, "done"),
                how)

\* bt_smp_auth_pairing_confirm; without a buffer it fails, but the pairing does not.
PairingAccepted(c, how) ==
    /\ Has(smp[c], "USER") /\ smp[c].method = "JUST_WORKS"
    /\ LET s == Clear(smp[c], {"USER"})
           command == IF Has(s, "SC") THEN "PUBLIC_KEY" ELSE "PAIRING_CONFIRM"
           r == Send(Allow(s, {command}), how, "done")
       IN  Change(c, IF s.role = "central" /\ Has(s, "SC") /\ pkey # "ready" THEN Set(s, {"PKEY_SEND"})
                     ELSE [r.s EXCEPT !.lost = @ \/ r.next = "error"])

\* bt_smp_auth_cancel.
AuthCancel(c, how) ==
    Has(smp[c], "USER") /\ Change(c, Error(Clear(smp[c], {"USER"}), how))

-----------------------------------------------------------------------------
(* The controller and the timer. *)

\* bt_hci_evt_le_dhkey_complete and bt_smp_dhkey_ready.
DhkeyComplete(ok, how, good) ==
    /\ gen.asked
    /\ LET marked == Find(G, "DHKEY_GEN")
           g == [G EXCEPT !.gen = NoGen]
           delivered == IF marked = {} THEN g
                        ELSE Finish(g, Min(marked), Delivered(Min(marked), ok, how, good), how)
       IN  Becomes(ServeNext(delivered, how))
    /\ UNCHANGED pkey

\* bt_smp_pkey_ready: the contexts that wait for the host's own key go on, one after the other.
PkeyReady(ok, how) ==
    LET Continue(g, c) ==
            LET s == g.smp[c]
                r == IF s.role = "central" THEN Send(s, how, "done") ELSE PublicKeyPeriph(s, how)
                h == Finish(g, c, r, how)
            IN  IF s.role = "central" THEN Put(h, c, Allow(h.smp[c], {"PUBLIC_KEY"})) ELSE h
        waiting == SetToSortSeq(Find(G, "PKEY_SEND"), <)
    IN  /\ pkey = "asked"
        /\ pkey' = IF ok THEN "ready" ELSE "refused"
        /\ Becomes(FoldLeft(Continue, [G EXCEPT !.pkey = pkey'], IF ok THEN waiting ELSE <<>>))

\* smp_timeout.
Timeout(c) ==
    smp[c].timer /\ Change(c, Set(Failed(smp[c]), {"TIMEOUT"}))

\* bt_smp_accept and bt_smp_connected.
Connected(c, role) ==
    smp[c].role = "off" /\ Change(c, Reset([Off EXCEPT !.role = role]))

\* bt_smp_disconnected.
Disconnected(c) ==
    /\ Up(c)
    /\ LET s == smp[c]
           ended == IF {"PAIRING", "ENC_PENDING", "SEC_REQ"} \cap s.flags # {} THEN Failed(s) ELSE s
       IN  Change(c, [Off EXCEPT !.outcome = ended.outcome, !.late = s.late])

-----------------------------------------------------------------------------
Init == smp = [c \in Pool |-> Off] /\ gen = NoGen /\ pkey = "asked"

Next ==
    \/ \E ok, good \in BOOLEAN, how \in Sendings : DhkeyComplete(ok, how, good)
    \/ \E ok \in BOOLEAN, how \in Sendings : PkeyReady(ok, how)
    \/ \E c \in Pool :
          \/ Timeout(c) \/ Disconnected(c) \/ KeySent(c) \/ RecvPairingFail(c)
          \/ \E role \in {"central", "peripheral"} : Connected(c, role)
          \/ \E keys \in BOOLEAN : LtkRequest(c, keys)
          \/ \E how \in Sendings :
                \/ \E cmd \in Commands : RecvWrong(c, cmd, how)
                \/ RecvUnexpected(c, how)
                \/ \E o \in Offers : RecvPairingReq(c, how, o) \/ RecvPairingRsp(c, how, o)
                \/ RecvPublicKey(c, how) \/ RecvPairingConfirm(c, how) \/ RecvPairingRandom(c, how)
                \/ \E good \in BOOLEAN : RecvDhkeyCheck(c, how, good) \/ PasskeyConfirm(c, how, good)
                \/ \E good \in BOOLEAN, key \in Keys : RecvKey(c, how, good, key)
                \/ \E keys \in BOOLEAN : RecvSecurityRequest(c, how, keys) \/ StartSecurity(c, how, keys)
                \/ SendSecurityReq(c, how) \/ PasskeyEntry(c, how) \/ PairingAccepted(c, how)
                \/ AuthCancel(c, how)
                \/ \E ok, keys \in BOOLEAN : EncryptChange(c, ok, how, keys)

Spec == Init /\ [][Next]_vars
-----------------------------------------------------------------------------
(* Properties. *)

TypeOK ==
    /\ \A c \in Pool :
          /\ smp[c].role \in {"off", "central", "peripheral"}
          /\ smp[c].flags \subseteq Flags /\ smp[c].allowed \subseteq Commands
          /\ smp[c].method \in Methods /\ smp[c].round \in 0 .. Rounds
          /\ smp[c].local \subseteq Keys /\ smp[c].remote \subseteq Keys
          /\ smp[c].timer \in BOOLEAN /\ smp[c].keySent \in {"no", "yes", "stale"}
          /\ smp[c].dhkey \in {"none", "own", "other"} /\ smp[c].check \in {"none", "sent", "undue"}
          /\ smp[c].outcome \in {"none", "open", "ended", "twice"}
          /\ smp[c].lost \in BOOLEAN /\ smp[c].late \in BOOLEAN
    /\ gen \in [asked : BOOLEAN, by : Pool \cup {0}, current : BOOLEAN]
    /\ pkey \in {"asked", "ready", "refused"}

\* A DHKey reaches only the pairing whose public key it was computed from, though pairings end
\* and others begin while the controller computes; and a pairing sends its DHKey check at most
\* once, with that DHKey, and after the user has confirmed the number (smp.c:3453-3660,
\* 4326-4340, 5670-5725).
CheckIsDue == \A c \in Pool : smp[c].dhkey # "other" /\ smp[c].check # "undue"

\* A context that waits for its DHKey is never forgotten: the controller computes for it, or for
\* another whose result makes bt_smp_dhkey_ready turn to it; so no pairing waits for a result
\* that was never asked for (smp.c:3663-3705, 4326-4340; ecc.c:148-187).
DhkeyWillCome ==
    /\ Find(G, "DHKEY_PENDING") # {} => gen.asked
    /\ gen.current => Find(G, "DHKEY_GEN") = {gen.by}
    /\ ~gen.current => Find(G, "DHKEY_GEN") = {}

\* The application hears of the end of every pairing, and once, whatever ended it: the peer, the
\* user, the timer, a failed encryption, the connection.  What the code does not prevent is left
\* out: the acknowledgement of a key that comes after the end is taken for success
\* (smp.c:1719-1803, 620-640, 4873-4890).
EveryPairingReported ==
    \A c \in Pool :
        /\ Has(smp[c], "PAIRING") <=> smp[c].outcome = "open"
        /\ smp[c].outcome = "twice" => smp[c].late

\* Each pairing checks its own DHKey, one that waits for it gets it, and the application hears
\* the end of each once.
PairingsEnd == CheckIsDue /\ DhkeyWillCome /\ EveryPairingReported

\* A pairing is under the 30 s of the protocol, so it ends even if the peer, the user or the
\* controller keep silent; but not before its first PDU, while the user is asked for consent,
\* and not if a PDU was dropped.  And the timer runs out on no context that does not pair
\* (smp.c:1805-1828).
PairingIsTimed ==
    \A c \in Pool :
        /\ Has(smp[c], "PAIRING") /\ ~smp[c].timer =>
              smp[c].lost \/ (smp[c].role = "peripheral" /\ Has(smp[c], "USER"))
        /\ smp[c].timer => Has(smp[c], "PAIRING")
=============================================================================
