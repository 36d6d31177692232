--------------------------- MODULE PluginSupport ---------------------------
(* The plugins as the program sees them: which directories are loaded, the   *)
(* order of their widgets, what the widget of a plugin makes of the fields a *)
(* user has typed, and the addresses it takes for a contact.                 *)
EXTENDS Wire

CONSTANTS
  ApiVersion,     \* the version of the plugin interface this program has
  Tokens          \* what Google gives for a code: codes -> refresh tokens

(***************************************************************************)
(* Discovery.  A directory is [schema: can the schema be read; entries];   *)
(* an entry is a directory *.plugin: its description fits the schema or    *)
(* not, names an API version, and its library can be loaded or not.        *)
(***************************************************************************)
IsVersionCompatable(entry) == entry.api = ApiVersion

\* Without a schema every description is taken, whatever version it names.
IsValid(entry, schema) == schema => entry.wellFormed /\ IsVersionCompatable(entry)

\* What cannot be loaded is skipped; PluginsContainer knows plugins by id.
DiscoverPlugins(directory) ==
  {e.id : e \in {f \in directory.entries : IsValid(f, directory.schema) /\ f.loadable}}

\* The container iterates in the order of the ids.
PluginIds == <<"gmail", "smtp", "vk">>
InOrder(plugins) == SelectSeq(PluginIds, LAMBDA p : p \in plugins)

(***************************************************************************)
(* fillConnectionInfo of the three widgets: the parameters, or a refusal.  *)
(* A field is a text, "" is an empty one.                                  *)
(***************************************************************************)
Refusal == [plugin |-> "refused"]

FillSmtp(form) ==
  IF \/ "" \in {form.emailLogin, form.emailPass, form.smtpUrl, form.imapUrl}
     \/ ~form.fromIsMail
     \/ {form.smtpPort, form.imapPort} \notin SUBSET Numbers
    THEN Refusal
  ELSE [userName |-> form.emailLogin, password |-> form.emailPass, tlsUsed |-> form.useTls,
        from |-> form.emailFrom, imapAddr |-> form.imapUrl, imapPort |-> form.imapPort,
        smtpAddr |-> form.smtpUrl, smtpPort |-> form.smtpPort]

\* GmailOauth::loadAccessToken: Google gives a token for the code, or refuses.
LoadAccessToken(code) == IF code \in DOMAIN Tokens THEN Tokens[code] ELSE ""

FillGmail(form) ==
  IF form.login = "" \/ form.pass = "" \/ LoadAccessToken(form.pass) = "" THEN Refusal
  ELSE [email |-> form.login, accessToken |-> LoadAccessToken(form.pass)]

\* The address that the browser shows after the login at VK: the items behind #.
FillVk(form) ==
  IF {"user_id", "access_token"} \subseteq DOMAIN form.fragment
    THEN [vkId |-> form.fragment.user_id, accessToken |-> form.fragment.access_token]
  ELSE Refusal

Fill(plugin, form) ==
  CASE plugin = "smtp"  -> FillSmtp(form)
    [] plugin = "gmail" -> FillGmail(form)
    [] plugin = "vk"    -> FillVk(form)

(***************************************************************************)
(* Addresses of contacts: [form, text]; a form is "mail", "digits", "id"   *)
(* or "link", anything else fits no plugin.                                *)
(***************************************************************************)
SmtpAddress(a) == a.form = "mail"
GmailAddress(a) == a.form = "mail"
VkAddress(a) == a.form \in {"digits", "id", "link"}

AddressIsValid(plugin, a) ==
  CASE plugin = "smtp"  -> SmtpAddress(a)
    [] plugin = "gmail" -> GmailAddress(a)
    [] plugin = "vk"    -> VkAddress(a)

\* VK strips what stands before the number.
PeelAddress(plugin, a) == IF plugin = "vk" THEN [a EXCEPT !.form = "digits"] ELSE a
=============================================================================
