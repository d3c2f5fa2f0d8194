------------------------------- MODULE MCMysql -------------------------------
EXTENDS MysqlConnection

=============================================================================
