----------------------------- MODULE MCFullSync -----------------------------
EXTENDS FullSync

MCFileOrder == <<"data", "info">>
MCFaults == {"bgsave", "backup", "masterTimeout", "slaveTimeout", "link", "crash", "purgelogsto"}

=============================================================================
