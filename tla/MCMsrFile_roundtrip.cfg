SPECIFICATION MsrSpec
CONSTANTS
  NoOfSessions = 3
  UsersFiles <- MCFiles
PROPERTIES ReadsBack KeepsUsersLines StopsGrowing
