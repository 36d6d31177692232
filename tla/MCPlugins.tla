----------------------------- MODULE MCPlugins -----------------------------
EXTENDS Plugins

\* Of every plugin one connection, the SMTP one with the right servers.
SmtpInfo ==
  [userName |-> "user", password |-> "secret", tlsUsed |-> TRUE, from |-> "me",
   imapAddr |-> "imap", imapPort |-> "993", smtpAddr |-> "smtp", smtpPort |-> "465"]

MCConnections ==
  { [name |-> "c", plugin |-> "smtp", info |-> SmtpInfo],
    [name |-> "c", plugin |-> "vk", info |-> [vkId |-> "id", accessToken |-> "token"]],
    [name |-> "c", plugin |-> "gmail", info |-> [email |-> "me", accessToken |-> "token"]] }

MCServers == [smtp |-> "smtp", imap |-> "imap"]

\* A text with a blank line at its end, one with a line that looks like the
\* delimiter, a signature of two lines.
MCMessages ==
  { DialogMessage("MESSAGE", <<"x", "">>, "d", "you", "1", <<"s1">>, "7"),
    DialogMessage("CREATE_DIALOG", <<"x", BodyDelitimer, "y">>, "d", "you", "2", <<"s2", "s3">>, "7") }
=============================================================================
