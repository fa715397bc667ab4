----------------------------- MODULE MCDataPath -----------------------------
EXTENDS DataPath, MCConversations, MCExports, MCJobs, MCBridge, MCCredentials
=============================================================================
