--------------------------- MODULE MCSuiteScripts ---------------------------
EXTENDS SuiteScripts

MCSubjects == {"s2", "s3", "s5"}
MCEnvs == {"none", "F5", "F10"}
MCIsolations == {"off", "restore", "migration"}
=============================================================================
