--------------------------- MODULE TelegramConsole ---------------------------
(***************************************************************************)
(* One administrator's chat with the console (internal/telegrambot:        *)
(* dispatch.go, actions.go, views.go, session.go, modifyUser of api.go).   *)
(*                                                                         *)
(* The console answers a tap by editing the tapped message in place, or by *)
(* a new message; messages it no longer edits keep their buttons, which    *)
(* can be tapped at any time.  What typed text means is a session in Redis *)
(* that expires by itself.  Neither Telegram nor Redis need answer: a      *)
(* screen that does not arrive and a session that is not written are only  *)
(* logged, if that.  The panel's other users change accounts between a     *)
(* handler's reading of an account and its writing.                        *)
(*                                                                         *)
(* A screen is its kind and what its buttons carry; wording is left out.   *)
(* The chat's updates come one at a time (TelegramPoller).                 *)
(***************************************************************************)
EXTENDS Integers, Sequences, FiniteSets

CONSTANTS
  Names,       \* usernames
  Amounts,     \* numbers that are typed or offered: days, gigabytes
  IsSudo,      \* is this chat's administrator sudo?
  HasTemplate, \* the panel has a template to offer
  MaxAmount,   \* bound: an account's limit and lifetime
  MaxMessages, \* bound: messages of the chat
  MaxTroubles  \* bound: changes by others, and updates whose screen does not
               \*   arrive or whose session Redis does not serve

ASSUME ConsoleAssumption ==
  /\ Amounts \subseteq 1..MaxAmount
  /\ {IsSudo, HasTemplate} \subseteq BOOLEAN
  /\ MaxAmount \in Nat /\ MaxMessages \in Nat \ {0} /\ MaxTroubles \in Nat

VARIABLES
  accounts,   \* the panel's users: limit, expire, plan (their status and note are
              \*   written the same way, and nothing here reads them)
  chat,       \* the screen of each message, the newest last
  session,    \* Redis: what the next typed text means
  pending,    \* a handler between its reading and its writing of an account
  last,       \* the message that was shown or edited last
  unseen,     \* history: the last screen did not arrive
  stale,      \* history: Redis does not hold what the last access was to leave
  planLost,   \* history: an edit changed a plan nobody else had touched
  misdirected, \* history: typed text went to something the last screen did not ask
              \*   for, with both of them in order
  unconfirmed, \* history: something was destroyed without its own confirmation
  troubles    \* changes by others and such updates so far

shown == <<chat, last, unseen>>
stored == <<session, stale>>
chatVars == <<accounts, shown, stored, pending, planLost, misdirected, unconfirmed,
              troubles>>

NoAccount == [limit |-> -1, expire |-> -1, plan |-> FALSE]
NoDraft == [name |-> "", tmpl |-> FALSE]
NoSession == [mode |-> "", step |-> "", user |-> "", msg |-> 0, draft |-> NoDraft]
NoPending == [op |-> "", name |-> "", fields |-> NoAccount, cur |-> NoAccount, msg |-> 0]

Screen(kind, name) == [kind |-> kind, name |-> name]
Home == Screen("home", "")

\* The screen that asks for text of each mode.
Ask == [ex |-> "ask ex", dt |-> "ask dt", nt |-> "ask nt"]

ChatInit ==
  /\ accounts \in [Names -> {NoAccount,
                            [limit |-> MaxAmount, expire |-> MaxAmount, plan |-> TRUE]}]
  /\ chat = <<Home>>
  /\ session = NoSession
  /\ pending = NoPending
  /\ last = 1
  /\ unseen = FALSE /\ stale = FALSE
  /\ planLost = FALSE /\ misdirected = FALSE /\ unconfirmed = FALSE
  /\ troubles = 0

(* show: the message is edited, or a new one is sent when there is none or   *)
(* Telegram refuses the edit; when that fails too the console goes on.       *)
Show(msg, screen) ==
  \/ msg # 0 /\ chat' = [chat EXCEPT ![msg] = screen] /\ last' = msg /\ unseen' = FALSE
  \/ Len(chat) < MaxMessages /\ chat' = Append(chat, screen) /\ last' = Len(chat') /\ unseen' = FALSE
  \/ troubles < MaxTroubles /\ UNCHANGED <<chat, last>> /\ unseen' = TRUE

(* saveSession, and clearSession for NoSession, when Redis holds old: a      *)
(* failure leaves that there.                                                *)
Stored(old, s) ==
  \/ session' = s /\ stale' = FALSE
  \/ old # s /\ troubles < MaxTroubles /\ session' = old /\ stale' = TRUE

Exists(name) == accounts[name] # NoAccount

----------------------------------------------------------------------------
(* The buttons of a screen: callback data as <<operation, name, argument>> *)

Nav == {<<"h", "", "">>, <<"us", "", "">>}

HomeKeyboard ==
  {<<op, "", "">> : op \in {"nu", "sy", "hp", "lg"} \cup IF IsSudo THEN {"nd", "bk"} ELSE {}}

CardKeyboard(n) ==
  {<<op, n, "">> : op \in {"t", "rs", "rv", "dl", "ex", "dt", "nt", "qr"}}

WizardKeyboard(step) ==
  CASE step = "tmpl" -> {<<"nu", "", "t0">>, <<"nu", "", "t1">>}
    [] step = "limit" -> {<<"nu", "", "l">>}
    [] step = "days" -> {<<"nu", "", "d">>}
    [] step = "confirm" -> {<<"nu", "", "ok">>}
    [] OTHER -> {}

Buttons(screen) ==
  Nav \cup
  CASE screen.kind = "home" -> HomeKeyboard
    [] screen.kind = "bk" -> {<<"bk", "", "y">>}
    [] screen.kind = "list" -> {<<"u", n, "">> : n \in Names} \cup {<<"nop", "", "">>}
    [] screen.kind = "card" -> CardKeyboard(screen.name)
    [] screen.kind \in {"rs", "rv", "dl"} ->
         {<<screen.kind, screen.name, "y">>, <<"u", screen.name, "">>}
    [] screen.kind \in {"ex", "dt"} ->
         {<<screen.kind, screen.name, "c">>, <<screen.kind, screen.name, "n">>}
    [] screen.kind \in {"name", "tmpl", "limit", "days", "confirm"} ->
         WizardKeyboard(screen.kind) \cup {<<"nu", "", "b">>}
    [] screen.kind = "wizfail" -> {<<"nu", "", "n">>, <<"nu", "", "b">>}
    [] screen.kind = "tmplfail" -> {<<"nu", "", "b">>}
    [] OTHER -> {}

----------------------------------------------------------------------------
(* Editing an account: it is read, and a partial update is sent later *)

Cap(n) == IF n > MaxAmount THEN MaxAmount ELSE n

(* applyExtend; an account without an expiry is left alone. *)
Extended(u, days) == [u EXCEPT !.expire = Cap(@ + days)]

(* applyData; an account without a limit is left alone. *)
WithData(u, gb) == [u EXCEPT !.limit = Cap(@ + gb)]

Edited(op, u, n) ==
  CASE op = "ex" -> Extended(u, n)
    [] op = "dt" -> WithData(u, n)
    [] op \in {"t", "nt"} -> u

Editable(op, u) == (op = "ex" => u.expire > 0) /\ (op = "dt" => u.limit > 0)

(* getUser, and what the handler will send. *)
ReadAccount(op, name, n, msg) ==
  LET u == accounts[name]
  IN IF ~Exists(name) THEN Show(msg, Screen("error", "")) /\ UNCHANGED pending
     ELSE IF ~Editable(op, u) THEN Show(msg, Screen("card", name)) /\ UNCHANGED pending
     ELSE /\ pending' = [op |-> op, name |-> name, fields |-> Edited(op, u, n), cur |-> u,
                         msg |-> msg]
          /\ UNCHANGED shown

\* Fault: the plan is left out of the update.
PlanOmitted(cur) == FALSE

(* modifyUser passes a plan the account already has back: the panel takes an *)
(* absent plan for its removal.                                              *)
PlanSent(cur) == cur.plan

(* The fields that this edit names are written, the others are kept.         *)
Modified(op, now, fields, plan) ==
  CASE op = "ex" -> [now EXCEPT !.expire = fields.expire, !.plan = plan]
    [] op = "dt" -> [now EXCEPT !.limit = fields.limit, !.plan = plan]
    [] op \in {"t", "nt"} -> [now EXCEPT !.plan = plan]

(* setNote ends its session once the update was answered, either way.        *)
EndsNote == IF pending.op = "nt" THEN Stored(session, NoSession) ELSE UNCHANGED stored

ModifyUser ==
  /\ pending # NoPending
  /\ LET p == pending
         now == accounts[p.name]
         row == Modified(p.op, now, p.fields, PlanSent(p.cur))
     IN IF ~Exists(p.name)
        THEN Show(p.msg, Screen("error", "")) /\ UNCHANGED <<accounts, planLost>>
        ELSE /\ accounts' = [accounts EXCEPT ![p.name] = row]
             /\ planLost' = (now.plan = p.cur.plan /\ row.plan # now.plan)
             /\ Show(p.msg, Screen("card", p.name))
  /\ pending' = NoPending
  /\ EndsNote
  /\ UNCHANGED <<misdirected, unconfirmed>>

(* The panel refuses the update. *)
ModifyFails ==
  /\ pending # NoPending
  /\ Show(pending.msg, Screen("error", ""))
  /\ pending' = NoPending
  /\ EndsNote
  /\ UNCHANGED <<accounts, planLost, misdirected, unconfirmed>>

----------------------------------------------------------------------------
(* The new-user wizard *)

Wizard(step, draft, msg) ==
  [mode |-> "nu", step |-> step, user |-> "", msg |-> msg, draft |-> draft]

(* saveSess and the screen of the step. *)
GoTo(step, draft, msg) ==
  Stored(session, Wizard(step, draft, msg)) /\ Show(msg, Screen(step, ""))

PreviousStep(s) ==
  CASE s.step = "tmpl" -> "name"
    [] s.step = "limit" -> IF HasTemplate THEN "tmpl" ELSE "name"
    [] s.step = "days" -> "limit"
    [] s.step = "confirm" -> IF s.draft.tmpl THEN "tmpl" ELSE "days"
    [] OTHER -> ""

(* wizardTemplate: a template, if it can be read, fills the draft; none       *)
(* empties it but its name.                                                  *)
(* The limit and the days of a draft are left out until an account is made.  *)
WizardTemplate(draft, chosen, msg) ==
  IF chosen
  THEN \/ GoTo("confirm", [draft EXCEPT !.tmpl = TRUE], msg)
       \/ Show(msg, Screen("tmplfail", "")) /\ UNCHANGED stored
  ELSE GoTo("limit", [NoDraft EXCEPT !.name = draft.name], msg)

(* wizardCreate: an empty name goes back to its step, a refusal by the panel *)
(* keeps the session.                                                        *)
WizardCreate(draft, msg) ==
  IF draft.name = ""
  THEN GoTo("name", draft, msg) /\ UNCHANGED <<accounts, unconfirmed>>
  ELSE IF Exists(draft.name)
  THEN /\ Show(msg, Screen("wizfail", ""))
       /\ UNCHANGED <<accounts, stored, unconfirmed>>
  ELSE /\ \E limit, days \in IF draft.tmpl THEN {MaxAmount} ELSE Amounts \cup {0} :
            accounts' = [accounts EXCEPT ![draft.name] =
                           [limit |-> limit, expire |-> days, plan |-> FALSE]]
       /\ Stored(session, NoSession)
       /\ Show(msg, Screen("card", draft.name))
       /\ UNCHANGED unconfirmed

(* Taps inside the wizard; the session may be gone, mean something else or   *)
(* be unreadable.                                                            *)
WizardTap(msg, arg) ==
  LET draft == session.draft
  IN \/ /\ arg = ""
        /\ GoTo("name", NoDraft, msg)
        /\ UNCHANGED <<accounts, unconfirmed>>
     \/ /\ arg # ""
        /\ Show(msg, Screen("error", ""))
        /\ UNCHANGED <<accounts, stored, unconfirmed>>
     \/ /\ session.mode = "nu" /\ arg = "ok"
        /\ WizardCreate(draft, msg)
     \/ /\ session.mode = "nu" /\ arg \notin {"", "ok"}
        /\ UNCHANGED <<accounts, unconfirmed>>
        /\ CASE arg = "t0" -> WizardTemplate(draft, FALSE, msg)
             [] arg = "t1" -> WizardTemplate(draft, TRUE, msg)
             [] arg = "l" -> GoTo("days", draft, msg)
             [] arg = "d" -> GoTo("confirm", draft, msg)
             [] arg = "n" -> GoTo("name", draft, msg)
             [] arg = "b" -> IF PreviousStep(session) = ""
                             THEN Stored(session, NoSession) /\ Show(msg, Home)
                             ELSE GoTo(PreviousStep(session), draft, msg)

----------------------------------------------------------------------------
(* Taps *)

\* Fault: a tap elsewhere leaves the session.
KeepSession == UNCHANGED stored

(* onCallback: every tap but the wizard's and the page counter's ends the    *)
(* session first.                                                            *)
EndSession == Stored(session, NoSession)

(* askNote and the like: the session is ended and then set anew.             *)
AskFor(mode, name, msg) ==
  \E old \in {session, NoSession} :
     Stored(old, [NoSession EXCEPT !.mode = mode, !.user = name, !.msg = msg])

\* Fault: the argument is not looked at.
AlwaysConfirmed(arg) == TRUE

IsConfirmed(arg) == arg = "y"

(* resetUsage, revokeSub, deleteUser: the first tap asks.                    *)
Destroy(op, name, arg, msg) ==
  IF ~IsConfirmed(arg)
  THEN Show(msg, Screen(op, name)) /\ UNCHANGED <<accounts, unconfirmed>>
  ELSE IF ~Exists(name)
  THEN Show(msg, Screen("error", "")) /\ UNCHANGED <<accounts, unconfirmed>>
  ELSE /\ accounts' = IF op = "dl" THEN [accounts EXCEPT ![name] = NoAccount] ELSE accounts
       /\ unconfirmed' = (chat[msg] # Screen(op, name))
       /\ Show(msg, IF op = "dl" THEN Screen("deleted", "") ELSE Screen("card", name))

(* backup: for sudo administrators, and only after a confirmation.  Nothing  *)
(* the console keeps depends on the dump.                                    *)
Backup(arg, msg) ==
  /\ Show(msg, Screen(IF IsSudo /\ ~IsConfirmed(arg) THEN "bk" ELSE "info", ""))
  /\ unconfirmed' = (IsSudo /\ IsConfirmed(arg) /\ chat[msg] # Screen("bk", ""))

(* extend and addData: choose an amount, ask for one, or apply one.          *)
AskAmount(op, name, arg, msg) ==
  \/ /\ arg = ""
     /\ Show(msg, Screen(op, name))
     /\ EndSession
     /\ UNCHANGED pending
  \/ /\ arg = "c"
     /\ AskFor(op, name, msg)
     /\ Show(msg, Screen(Ask[op], name))
     /\ UNCHANGED pending
  \/ /\ arg = "n"
     /\ \E n \in Amounts : ReadAccount(op, name, n, msg)
     /\ EndSession

Tap(msg, b) ==
  /\ pending = NoPending
  /\ b \in Buttons(chat[msg])
  /\ LET op == b[1]
         name == b[2]
         arg == b[3]
     IN \/ /\ op = "nop"
           /\ UNCHANGED <<accounts, shown, stored, pending, unconfirmed>>
        \/ /\ op \in {"h", "us", "u"}
           /\ EndSession
           /\ Show(msg, IF op = "h" THEN Home ELSE IF op = "us" THEN Screen("list", "")
                        ELSE IF Exists(name) THEN Screen("card", name)
                        ELSE Screen("error", ""))
           /\ UNCHANGED <<accounts, pending, unconfirmed>>
        \/ /\ op \in {"sy", "nd", "hp", "lg"}
           /\ EndSession
           /\ Show(msg, IF op = "lg" THEN Home ELSE Screen("info", ""))
           /\ UNCHANGED <<accounts, pending, unconfirmed>>
        \/ /\ op = "bk"
           /\ EndSession
           /\ Backup(arg, msg)
           /\ UNCHANGED <<accounts, pending>>
        \/ /\ op \in {"rs", "rv", "dl"}
           /\ EndSession
           /\ Destroy(op, name, arg, msg)
           /\ UNCHANGED pending
        \/ /\ op = "t"
           /\ EndSession
           /\ ReadAccount(op, name, 0, msg)
           /\ UNCHANGED <<accounts, unconfirmed>>
        \/ /\ op \in {"ex", "dt"}
           /\ AskAmount(op, name, arg, msg)
           /\ UNCHANGED <<accounts, unconfirmed>>
        \/ /\ op = "nt"
           /\ AskFor("nt", name, msg)
           /\ Show(msg, Screen(Ask[op], name))
           /\ UNCHANGED <<accounts, pending, unconfirmed>>
        \/ /\ op = "qr"
           /\ EndSession
           /\ IF Exists(name) THEN UNCHANGED shown
              ELSE Show(msg, Screen("error", ""))
           /\ UNCHANGED <<accounts, pending, unconfirmed>>
        \/ /\ op = "nu"
           /\ WizardTap(msg, arg)
           /\ UNCHANGED pending
  /\ UNCHANGED <<planLost, misdirected>>

----------------------------------------------------------------------------
(* Typed text *)

(* onCommand: /start and the like. *)
Command ==
  /\ pending = NoPending
  /\ EndSession
  /\ Show(0, Home)
  /\ UNCHANGED <<accounts, pending, planLost, misdirected, unconfirmed>>

(* Without a session, or when it cannot be read, text is a search. *)
SearchText ==
  /\ pending = NoPending
  /\ session' = session
  /\ \/ session = NoSession /\ stale' = FALSE
     \/ troubles < MaxTroubles /\ stale' = TRUE
  /\ \/ Show(0, Screen("list", ""))
     \/ \E n \in Names : Exists(n) /\ Show(0, Screen("card", n))
  /\ UNCHANGED <<accounts, pending, planLost, misdirected, unconfirmed>>

(* onText, before it looks for a session. *)
TextTooLong ==
  /\ pending = NoPending
  /\ Show(0, Screen("error", ""))
  /\ UNCHANGED <<accounts, stored, pending, planLost, misdirected, unconfirmed>>

(* The screens after which typed text means the session: its own prompt, and *)
(* the complaints about a tap or a text that could not be served.            *)
AsksFor(s) ==
  \/ s.mode \in DOMAIN Ask /\ chat[last] = Screen(Ask[s.mode], s.user)
  \/ s.mode = "nu" /\ chat[last].kind = s.step
  \/ chat[last].kind \in {"error", "wizfail", "tmplfail"}

Astray(s) == ~unseen /\ ~stale /\ ~AsksFor(s)

(* input, for a number: what does not parse asks again. *)
TypeAmount(n) ==
  /\ pending = NoPending
  /\ session.mode \in {"ex", "dt"}
  /\ misdirected' = Astray(session)
  /\ IF n = 0
     THEN /\ Show(session.msg, Screen(Ask[session.mode], session.user))
          /\ Stored(session, session)
          /\ UNCHANGED pending
     ELSE /\ EndSession
          /\ ReadAccount(session.mode, session.user, n, session.msg)
  /\ UNCHANGED <<accounts, planLost, unconfirmed>>

(* setNote clears the session only after the update (EndsNote), or when the  *)
(* account is gone; a note that is too long is asked for again.              *)
TypeNote ==
  /\ pending = NoPending
  /\ session.mode = "nt"
  /\ misdirected' = Astray(session)
  /\ \/ /\ ReadAccount("nt", session.user, 0, session.msg)
        /\ IF Exists(session.user) THEN UNCHANGED stored ELSE EndSession
     \/ /\ Show(session.msg, Screen(Ask["nt"], session.user))
        /\ Stored(session, session)
        /\ UNCHANGED pending
  /\ UNCHANGED <<accounts, planLost, unconfirmed>>

(* wizardInput: text that does not fit the step asks again; when the         *)
(* templates cannot be read the name is not kept.                            *)
TypeWizard(name) ==
  /\ pending = NoPending
  /\ session.mode = "nu"
  /\ misdirected' = Astray(session)
  /\ LET draft == session.draft
         msg == session.msg
     IN \/ /\ session.step = "name"
           /\ \/ GoTo(IF HasTemplate THEN "tmpl" ELSE "limit", [draft EXCEPT !.name = name], msg)
              \/ Show(msg, Screen("error", "")) /\ UNCHANGED stored
        \/ session.step = "limit" /\ GoTo("days", draft, msg)
        \/ session.step = "days" /\ GoTo("confirm", draft, msg)
        \/ GoTo(session.step, draft, msg)
  /\ UNCHANGED <<accounts, pending, planLost, unconfirmed>>

SessionExpires ==
  /\ session # NoSession
  /\ session' = NoSession
  /\ UNCHANGED <<accounts, shown, stale, pending, planLost, misdirected, unconfirmed>>

(* Another administrator, or the review job, changes an account. *)
OthersEdit(n) ==
  /\ accounts' \in {[accounts EXCEPT ![n] = row] :
       row \in IF Exists(n)
               THEN {NoAccount, [accounts[n] EXCEPT !.plan = ~@], [accounts[n] EXCEPT !.limit = 0]}
               ELSE {[limit |-> MaxAmount, expire |-> 0, plan |-> TRUE]}}
  /\ UNCHANGED <<shown, stored, pending, planLost, misdirected, unconfirmed>>

ChatStep ==
  \/ \E msg \in 1..Len(chat) : \E b \in Buttons(chat[msg]) : Tap(msg, b)
  \/ ModifyUser \/ ModifyFails
  \/ Command \/ SearchText \/ TextTooLong
  \/ \E n \in Amounts \cup {0} : TypeAmount(n)
  \/ TypeNote
  \/ \E name \in Names : TypeWizard(name)
  \/ SessionExpires

ChatNext ==
  \/ /\ ChatStep
     /\ troubles' = troubles + IF (unseen' /\ ~unseen) \/ (stale' /\ ~stale) THEN 1 ELSE 0
  \/ /\ \E n \in Names : OthersEdit(n)
     /\ troubles < MaxTroubles
     /\ troubles' = troubles + 1

ChatSpec == ChatInit /\ [][ChatNext]_chatVars

----------------------------------------------------------------------------
ChatTypeOK ==
  /\ \A n \in Names : accounts[n] = NoAccount \/ {accounts[n].limit, accounts[n].expire} \subseteq 0..MaxAmount
  /\ Len(chat) \in 1..MaxMessages
  /\ session.mode \in {"", "ex", "dt", "nt", "nu"}
  /\ session.msg \in 0..MaxMessages
  /\ pending.msg \in 0..MaxMessages

(* An edit by the console keeps the account's plan as it is, unless somebody *)
(* else changed the plan between the reading and the writing (api.go:228).   *)
PlanKept == ~planLost

(* However many messages with live buttons the chat holds, nothing is reset, *)
(* revoked, deleted or dumped but from a screen that asked for just that, for *)
(* just that account, also when screens and sessions get lost; and typed text *)
(* goes to what the last screen asked for whenever that screen arrived and   *)
(* Redis answered last, so what a failure upsets one good answer puts right   *)
(* (dispatch.go:111, 163, 227; session.go:69; actions.go:63).                *)
DoesWhatWasAsked == ~misdirected /\ ~unconfirmed

(* The console does what was asked, to whom, and nothing beside it           *)
(* (dispatch.go, actions.go, api.go).                                        *)
ChatIsSafe == ChatTypeOK /\ PlanKept /\ DoesWhatWasAsked
=============================================================================
